---- MODULE Spec2Model ----
(***************************************************************************)
(* Model of the path-addressed data reconciliation engine of               *)
(* dynform-react: parsePathComponent / insertValueByPath (the path         *)
(* resolver) and computeDiff / computeArrayDiff (the diff engine).         *)
(*                                                                         *)
(* Strings that the code parses (paths, segments, keys) are sequences of   *)
(* one-character strings.  JavaScript values are tagged records.  The      *)
(* data graph the resolver mutates is a heap of objects addressed by       *)
(* reference; the snapshots the diff engine reads are value trees.         *)
(* The source is an ES module, hence strict-mode code: an assignment to a  *)
(* property of a primitive value throws a TypeError.                       *)
(*                                                                         *)
(* The form context of useDynamicFormContext is modelled by what a render  *)
(* of the hook keeps: the values of useState survive a render, the locals  *)
(* of the hook's body are made anew by every render.                       *)
(***************************************************************************)
EXTENDS Integers, Sequences, FiniteSets, TLC

(***************************************************************************)
(* Bounds                                                                  *)
(***************************************************************************)
MaxSegs == 2
MaxCalls == 2
MaxArrLen == 2

(***************************************************************************)
(* JavaScript values                                                       *)
(***************************************************************************)
Undef == [t |-> "undef"]
Null == [t |-> "null"]
NaNV == [t |-> "nan"]
Num(n) == [t |-> "num", n |-> n]
Str(s) == [t |-> "str", s |-> s]
Bool(b) == [t |-> "bool", b |-> b]
Ref(a) == [t |-> "ref", a |-> a]
MapV(m) == [t |-> "map", m |-> m]
ArrV(e) == [t |-> "arr", e |-> e]

EmptyFn == [x \in {} |-> Undef]
EmptyMapV == MapV(EmptyFn)
EmptyArrV == ArrV(<<>>)

\* ToBoolean: undefined, null, 0, NaN, '' and false are falsy.
Truthy(v) ==
    CASE v.t = "undef" -> FALSE
      [] v.t = "null" -> FALSE
      [] v.t = "nan" -> FALSE
      [] v.t = "num" -> v.n # 0
      [] v.t = "str" -> v.s # <<>>
      [] v.t = "bool" -> v.b
      [] OTHER -> TRUE

\* The typeof operator: null, arrays and maps are all 'object'.
TypeOf(v) ==
    CASE v.t = "undef" -> "undefined"
      [] v.t \in {"num", "nan"} -> "number"
      [] v.t = "str" -> "string"
      [] v.t = "bool" -> "boolean"
      [] OTHER -> "object"

\* v instanceof Array
IsArray(v) == v.t = "arr"

\* a !== b for two values of which at least one is not an object reference.
StrictNotEqual(a, b) == a.t = "nan" \/ b.t = "nan" \/ a # b

(***************************************************************************)
(* Character strings                                                       *)
(***************************************************************************)
Digits == <<"0", "1", "2", "3", "4", "5", "6", "7", "8", "9">>

RECURSIVE NatToStr(_)
NatToStr(n) ==
    IF n < 10 THEN <<Digits[n + 1]>>
    ELSE NatToStr(n \div 10) \o <<Digits[(n % 10) + 1]>>

\* String(n) for an integer n: the property key an index is converted to.
NumToStr(n) == IF n < 0 THEN <<"-">> \o NatToStr(0 - n) ELSE NatToStr(n)

\* Position of the first occurrence of c in s, or 0.
IndexOf(s, c) ==
    IF \E i \in 1..Len(s) : s[i] = c
    THEN CHOOSE i \in 1..Len(s) : s[i] = c /\ \A j \in 1..(i - 1) : s[j] # c
    ELSE 0

\* String.prototype.split on a one-character separator.
RECURSIVE Split(_, _)
Split(s, c) ==
    LET i == IndexOf(s, c)
    IN IF i = 0 THEN <<s>>
       ELSE <<SubSeq(s, 1, i - 1)>> \o Split(SubSeq(s, i + 1, Len(s)), c)

RECURSIVE SkipSpaces(_)
SkipSpaces(s) ==
    IF s # <<>> /\ s[1] = " " THEN SkipSpaces(Tail(s)) ELSE s

HexDigits == <<"0", "1", "2", "3", "4", "5", "6", "7", "8", "9",
               "a", "b", "c", "d", "e", "f">>

HexUpper == <<"0", "1", "2", "3", "4", "5", "6", "7", "8", "9",
              "A", "B", "C", "D", "E", "F">>

\* The value of character c as a digit in the given radix, or -1.
DigitIn(c, radix) ==
    IF \E i \in 1..radix : HexDigits[i] = c \/ HexUpper[i] = c
    THEN (CHOOSE i \in 1..radix : HexDigits[i] = c \/ HexUpper[i] = c) - 1
    ELSE -1

RECURSIVE DigitPrefix(_, _)
DigitPrefix(s, radix) ==
    IF s # <<>> /\ DigitIn(s[1], radix) >= 0
    THEN <<s[1]>> \o DigitPrefix(Tail(s), radix)
    ELSE <<>>

RECURSIVE DigitsVal(_, _, _)
DigitsVal(s, radix, acc) ==
    IF s = <<>> THEN acc
    ELSE DigitsVal(Tail(s), radix, (acc * radix) + DigitIn(s[1], radix))

\* parseInt(s): leading blanks are skipped, one sign is accepted, a 0x prefix
\* selects radix 16, then the longest prefix of digits is converted; whatever
\* follows the digits is ignored.  No digits: NaN.
parseDigits(neg, d, radix) ==
    IF d = <<>> THEN [nan |-> TRUE, n |-> 0]
    ELSE [nan |-> FALSE,
          n |-> IF neg THEN 0 - DigitsVal(d, radix, 0) ELSE DigitsVal(d, radix, 0)]

parseRadix(neg, u) ==
    IF Len(u) >= 2 /\ u[1] = "0" /\ u[2] \in {"x", "X"}
    THEN parseDigits(neg, DigitPrefix(SubSeq(u, 3, Len(u)), 16), 16)
    ELSE parseDigits(neg, DigitPrefix(u, 10), 10)

parseSigned(t) ==
    IF t # <<>> /\ t[1] \in {"-", "+"} THEN parseRadix(t[1] = "-", Tail(t))
    ELSE parseRadix(FALSE, t)

parseInt(s) == parseSigned(SkipSpaces(s))

(***************************************************************************)
(* parsePathComponent                                                      *)
(***************************************************************************)
\* A PathComponent; isArray, index and key are optional in the code: hasIndex
\* and hasKey say whether index and key are set, isArray is TRUE when set.
Component(name, isArray, hasIndex, index, hasKey, key) ==
    [name |-> name, isArray |-> isArray, hasIndex |-> hasIndex, index |-> index,
     hasKey |-> hasKey, key |-> key]

\* Lines 104-110: rawIndex is not empty.
indexOrKey(name, rawIndex, index) ==
    IF index.nan
    THEN Component(name, FALSE, FALSE, 0, TRUE, rawIndex)
    ELSE Component(name, TRUE, TRUE, index.n, FALSE, <<>>)

\* Lines 102-113: restIndex is not empty.
bracketed(name, rawIndex) ==
    IF rawIndex # <<>> THEN indexOrKey(name, rawIndex, parseInt(rawIndex))
    ELSE Component(name, TRUE, FALSE, 0, FALSE, <<>>)

\* Lines 97-116, for [name, restIndex] = component.split('[').
componentOf(parts) ==
    IF Len(parts) >= 2 /\ parts[2] # <<>>
    THEN bracketed(parts[1], Split(parts[2], "]")[1])
    ELSE Component(parts[1], FALSE, FALSE, 0, FALSE, <<>>)

parsePathComponent(component) == componentOf(Split(component, "["))

(***************************************************************************)
(* The object heap: the FormData graph insertValueByPath mutates in place. *)
(* An object is a map or an array; both carry string-keyed properties, an  *)
(* array keeps its elements under the keys String(i) and has a length.     *)
(* Property names are drawn outside the built-in ones (length, push, ...). *)
(***************************************************************************)
NewMap == [kind |-> "map", props |-> EmptyFn, len |-> 0]
NewArr == [kind |-> "arr", props |-> EmptyFn, len |-> 0]

\* key is the canonical decimal form of an array index.
IsIndexKey(key) ==
    /\ key # <<>>
    /\ \A i \in 1..Len(key) : DigitIn(key[i], 10) >= 0
    /\ (Len(key) = 1 \/ key[1] # "0")

\* v[key]: a property read; v is never null or undefined here.
GetProp(h, v, key) ==
    IF v.t = "ref"
    THEN IF key \in DOMAIN h[v.a].props THEN h[v.a].props[key] ELSE Undef
    ELSE IF v.t = "str" /\ IsIndexKey(key) /\ DigitsVal(key, 10, 0) < Len(v.s)
         THEN Str(<<v.s[DigitsVal(key, 10, 0) + 1]>>)
         ELSE Undef

\* h after the assignment (object at a)[key] = val.
SetProp(h, a, key, val) ==
    LET o == h[a]
        props == [k \in DOMAIN o.props \cup {key} |->
                    IF k = key THEN val ELSE o.props[k]]
        len == IF o.kind = "arr" /\ IsIndexKey(key) /\ DigitsVal(key, 10, 0) >= o.len
               THEN DigitsVal(key, 10, 0) + 1
               ELSE o.len
    IN [h EXCEPT ![a] = [kind |-> o.kind, props |-> props, len |-> len]]

\* target[index] = {} on every call.
IsNullish_Always(v) == TRUE

\* v ?? w takes w exactly when v is null or undefined.
IsNullish(v) == v.t \in {"undef", "null"}

\* The state of one run of insertValueByPath: the heap, the pointer and
\* what was thrown ("none", "TypeError" or "Error" with its message).
Run(h, ptr, thrown, msg) == [h |-> h, ptr |-> ptr, thrown |-> thrown, msg |-> msg]

TypeErr(h, ptr) == Run(h, ptr, "TypeError", <<>>)

\* The message names the failing segment twice and never the path.
unnamedArrayMessage_NoPath(component, path) ==
    <<"unnamed array not allowed. failed parsing '">> \o component
        \o <<"' in '">> \o component \o <<"'">>

unnamedArrayMessage(component, path) ==
    <<"unnamed array not allowed. failed parsing '">> \o component
        \o <<"' in '">> \o path \o <<"'">>

\* (object at a)[key] = {} in the heap h1, whose last object is the new {};
\* ptr is the new object.
attachNew(h1, a, key) ==
    Run(SetProp(h1, a, key, Ref(Len(h1))), Ref(Len(h1)), "none", <<>>)

\* target[index] = target[index] || {}: a falsy element is replaced too.
resolveIndex_Truthy(h, target, k) ==
    IF target.t # "ref" THEN TypeErr(h, target)
    ELSE IF ~Truthy(GetProp(h, target, k))
         THEN attachNew(Append(h, NewMap), target.a, k)
         ELSE Run(h, GetProp(h, target, k), "none", <<>>)

\* Lines 162-165: target[index] = target[index] ?? {}; ptr = target[index]
resolveIndex(h, target, k) ==
    IF target.t # "ref" THEN TypeErr(h, target)
    ELSE IF IsNullish(GetProp(h, target, k))
         THEN attachNew(Append(h, NewMap), target.a, k)
         ELSE Run(h, GetProp(h, target, k), "none", <<>>)

\* target[0] = {}: the new map is stored in the first slot, not pushed.
resolveAppend_First(h, target) ==
    IF target.t # "ref" \/ h[target.a].kind # "arr" THEN TypeErr(h, target)
    ELSE attachNew(Append(h, NewMap), target.a, NumToStr(0))

\* Lines 167-169: target.push({}); ptr = target[target.length - 1]
resolveAppend(h, target) ==
    IF target.t # "ref" \/ h[target.a].kind # "arr" THEN TypeErr(h, target)
    ELSE attachNew(Append(h, NewMap), target.a, NumToStr(h[target.a].len))

\* Lines 172-176: if (!target[key]) target[key] = {}; ptr = target[key]
resolveKey(h, target, key) ==
    IF Truthy(GetProp(h, target, key)) THEN Run(h, GetProp(h, target, key), "none", <<>>)
    ELSE IF target.t # "ref" THEN TypeErr(h, target)
         ELSE attachNew(Append(h, NewMap), target.a, key)

\* Lines 161-180: the new pointer is resolved from target.
resolveFromTarget(h, target, pc) ==
    IF pc.isArray
    THEN IF pc.hasIndex THEN resolveIndex(h, target, NumToStr(pc.index))
         ELSE resolveAppend(h, target)
    ELSE IF pc.hasKey THEN resolveKey(h, target, pc.key)
         ELSE Run(h, target, "none", <<>>)

\* Lines 143-151: ptr[name] = [] or {}, the last object of h1; target = ptr[name]
createNamed(h1, ptr, pc) ==
    resolveFromTarget(SetProp(h1, ptr.a, pc.name, Ref(Len(h1))), Ref(Len(h1)), pc)

\* Lines 141-180 for the parsed component pc.
resolveParsed(h, ptr, pc, component, path) ==
    IF pc.name # <<>> /\ ~Truthy(GetProp(h, ptr, pc.name))
    THEN IF ptr.t # "ref" THEN TypeErr(h, ptr)
         ELSE createNamed(Append(h, IF pc.isArray THEN NewArr ELSE NewMap), ptr, pc)
    ELSE IF pc.name # <<>>
         THEN resolveFromTarget(h, GetProp(h, ptr, pc.name), pc)
         ELSE IF pc.isArray
              THEN Run(h, ptr, "Error", unnamedArrayMessage(component, path))
              ELSE resolveFromTarget(h, ptr, pc)

\* Lines 140-180: one iteration of the loop, for a non-empty component.
resolveComponent(h, ptr, component, path) ==
    resolveParsed(h, ptr, parsePathComponent(component), component, path)

\* Lines 133-181: the loop over path.split('/'); an empty component breaks.
\* parsed collects the components the loop has parsed (line 140).
RECURSIVE resolveLoop(_, _, _, _, _)
RECURSIVE resolveNext(_, _, _, _)
\* An empty component is skipped (continue) where the code breaks.
resolveLoop_Continue(h, ptr, comps, path, parsed) ==
    IF comps = <<>> THEN Run(h, ptr, "none", <<>>) @@ [parsed |-> parsed]
    ELSE IF comps[1] = <<>> THEN resolveLoop(h, ptr, Tail(comps), path, parsed)
    ELSE resolveNext(resolveComponent(h, ptr, comps[1], path), comps, path,
                     Append(parsed, parsePathComponent(comps[1])))

resolveLoop(h, ptr, comps, path, parsed) ==
    IF comps = <<>> \/ comps[1] = <<>>
    THEN Run(h, ptr, "none", <<>>) @@ [parsed |-> parsed]
    ELSE resolveNext(resolveComponent(h, ptr, comps[1], path), comps, path,
                     Append(parsed, parsePathComponent(comps[1])))

\* r is the run of the iteration on comps[1]: a throw ends the loop.
resolveNext(r, comps, path, parsed) ==
    IF r.thrown # "none" THEN r @@ [parsed |-> parsed]
    ELSE resolveLoop(r.h, r.ptr, Tail(comps), path, parsed)

\* The insertFn of the tests and of the collection pass: ptr[key] = value.
\* insert is [key, value], or [none |-> TRUE] when no insertFn is passed.
NoInsert == [none |-> TRUE]
InsertKV(key, value) == [none |-> FALSE, key |-> key, value |-> value]

\* The outcome of a call: the run r of the loop, whether insertFn was
\* invoked, with which node, and the run after it.
Outcome(r, called, end) ==
    [h |-> end.h, ptr |-> end.ptr, thrown |-> end.thrown, msg |-> end.msg,
     parsed |-> r.parsed, called |-> called, arg |-> r.ptr]

\* Lines 182-183: insertFn?.(ptr); return ptr, after the loop's run r.
finish(r, insert) ==
    IF r.thrown # "none" \/ insert.none THEN Outcome(r, FALSE, r)
    ELSE IF r.ptr.t # "ref" THEN Outcome(r, TRUE, TypeErr(r.h, r.ptr))
    ELSE Outcome(r, TRUE,
                 Run(SetProp(r.h, r.ptr.a, insert.key, insert.value), r.ptr, "none", <<>>))

\* The resolved node is copied: insertFn is given, and the call returns, the
\* copy.
copyOf(r) ==
    IF r.thrown = "none" /\ r.ptr.t = "ref"
    THEN [r EXCEPT !.h = Append(r.h, r.h[r.ptr.a]), !.ptr = Ref(Len(r.h) + 1)]
    ELSE r

insertValueByPath_Copy(h, data, path, insert) ==
    finish(copyOf(resolveLoop(h, data, Split(path, "/"), path, <<>>)), insert)

\* A call that throws puts the graph back as it was when the call began.
restore(h, o) == IF o.thrown # "none" THEN [o EXCEPT !.h = h] ELSE o

insertValueByPath_Rollback(h, data, path, insert) ==
    restore(h, finish(resolveLoop(h, data, Split(path, "/"), path, <<>>), insert))

\* insertValueByPath(data, path, insertFn); the returned value is ptr.
insertValueByPath(h, data, path, insert) ==
    finish(resolveLoop(h, data, Split(path, "/"), path, <<>>), insert)

(***************************************************************************)
(* Value trees and the heap                                                *)
(***************************************************************************)
\* The properties of a tree value: a map's entries, an array's elements
\* under their index keys.
TreeProps(tv) ==
    IF tv.t = "map" THEN tv.m
    ELSE [k \in {NumToStr(i - 1) : i \in 1..Len(tv.e)} |-> tv.e[DigitsVal(k, 10, 0) + 1]]

\* The heap after allocating the tree value tv, and the value that refers
\* to it (a reference for a container, the scalar itself otherwise).
RECURSIVE LoadVal(_, _)
RECURSIVE LoadProps(_, _, _, _)
LoadVal(h, tv) ==
    IF tv.t \in {"map", "arr"}
    THEN LET h0 == Append(h, IF tv.t = "map" THEN NewMap ELSE NewArr)
         IN [h |-> LoadProps(h0, Len(h0), TreeProps(tv), DOMAIN TreeProps(tv)),
             v |-> Ref(Len(h0))]
    ELSE [h |-> h, v |-> tv]

LoadProps(h, a, f, ks) ==
    IF ks = {} THEN h
    ELSE LET k == CHOOSE x \in ks : TRUE
             r == LoadVal(h, f[k])
         IN LoadProps(SetProp(r.h, a, k, r.v), a, f, ks \ {k})

\* The structure reachable from value v in heap h, without the addresses.
RECURSIVE Graph(_, _)
Graph(h, v) ==
    IF v.t = "ref"
    THEN [kind |-> h[v.a].kind, len |-> h[v.a].len,
          props |-> [k \in DOMAIN h[v.a].props |-> Graph(h, h[v.a].props[k])]]
    ELSE v

(***************************************************************************)
(* Inputs of the path resolver                                             *)
(***************************************************************************)
Segments ==
    { <<>>, <<"a">>, <<"b">>, <<"k">>,
      <<"a", "[", "]">>, <<"a", "[", "0", "]">>,
      <<"a", "[", "k", "]">>, <<"[", "k", "]">>,
      <<"[", "]">>, <<"[", "0", "]">>,
      <<"a", "[", "1", "k", "]">>, <<"a", "[", "-", "1", "]">> }

RECURSIVE Join(_)
Join(segs) ==
    IF Len(segs) = 1 THEN segs[1] ELSE segs[1] \o <<"/">> \o Join(Tail(segs))

Paths == UNION { {Join(q) : q \in [1..n -> Segments]} : n \in 1..MaxSegs }

Scalars == {Null, Num(0), Num(1), Str(<<"s">>)}

Leaves == Scalars \cup {EmptyMapV, EmptyArrV}

\* The maps with keys among ks and values in vals.
MapsOver(ks, vals) ==
    UNION { {MapV(f) : f \in [d -> vals]} : d \in SUBSET ks }

\* What a map or an array below the root holds.
NestedLeaves == {Null, Num(0), Num(1), EmptyMapV}

Nested ==
    Leaves \cup MapsOver({<<"k">>}, NestedLeaves) \cup {ArrV(<<x>>) : x \in NestedLeaves}

Roots == MapsOver({<<"a">>}, Nested)

InsertKey == <<"k", "e", "y">>

(***************************************************************************)
(* The diff engine: computeArrayDiff, mergeArrays, computeDiff             *)
(***************************************************************************)
\* A DiffResults, and whether the call that built it threw a TypeError.
DiffResults(hasDiff, diffs, thrown) ==
    [hasDiff |-> hasDiff, diffs |-> diffs, thrown |-> thrown]

\* { hasDiff: false, diffs: {} }
NoDiffs == DiffResults(FALSE, EmptyFn, FALSE)

\* The exception leaves the call: nothing is returned.
Throws == DiffResults(FALSE, EmptyFn, TRUE)

\* Object.keys(v) for a map or an array.
ObjectKeys(v) == DOMAIN TreeProps(v)

\* v[key] for a map or an array.
Prop(v, key) == IF key \in DOMAIN TreeProps(v) THEN TreeProps(v)[key] ELSE Undef

\* arr[i]; a read beyond the length gives undefined.
Elem(arr, i) == IF i < Len(arr.e) THEN arr.e[i + 1] ELSE Undef

\* diffs[at] = [ov, nv]
Put(diffs, at, ov, nv) ==
    [p \in DOMAIN diffs \cup {at} |-> IF p = at THEN <<ov, nv>> ELSE diffs[p]]

\* `[${i}]`
IndexPath(i) == <<"[">> \o NumToStr(i) \o <<"]">>

\* Lines 298-307: the keys of both arrays, each once.
mergeArrays(arr1, arr2) == arr1 \cup arr2

\* Lines 332-334: every entry of arrdiff is copied under prefix + okey + index.
copyArrayDiffs(diffs, at, arrdiffs) ==
    [p \in DOMAIN diffs \cup {at \o index : index \in DOMAIN arrdiffs} |->
        IF \E index \in DOMAIN arrdiffs : p = at \o index
        THEN arrdiffs[CHOOSE index \in DOMAIN arrdiffs : p = at \o index]
        ELSE diffs[p]]

\* Lines 329-335, for arrdiff = computeArrayDiff(ov, nv).
mergeArrayDiff(arrdiff, at, curdiff) ==
    IF arrdiff.thrown THEN Throws
    ELSE IF arrdiff.hasDiff
         THEN DiffResults(TRUE, copyArrayDiffs(curdiff.diffs, at, arrdiff.diffs), FALSE)
         ELSE curdiff

RECURSIVE computeDiff(_, _, _, _)
RECURSIVE diffKeys(_, _, _, _, _)
RECURSIVE diffKey(_, _, _, _)
RECURSIVE computeArrayDiff(_, _)
RECURSIVE arrayLoop(_, _, _, _, _)
RECURSIVE arrayElement(_, _, _, _, _)

\* Lines 282-285, for _diff = computeDiff(oval[i], nval[i]).
arraySubDiff(sub, oval, nval, i, diffs, errs) ==
    IF sub.thrown THEN Throws
    ELSE IF sub.hasDiff
         THEN arrayLoop(oval, nval, i + 1, Put(diffs, IndexPath(i), Elem(oval, i), Elem(nval, i)),
                        errs + 1)
         ELSE arrayLoop(oval, nval, i + 1, diffs, errs)

\* Lines 280-291: the body of the loop at index i.
arrayElement(oval, nval, i, diffs, errs) ==
    IF TypeOf(Elem(oval, i)) = "object" /\ TypeOf(Elem(nval, i)) = "object"
    THEN arraySubDiff(computeDiff(Elem(oval, i), Elem(nval, i), <<>>, NoDiffs),
                      oval, nval, i, diffs, errs)
    ELSE IF StrictNotEqual(Elem(oval, i), Elem(nval, i))
         THEN arrayLoop(oval, nval, i + 1, Put(diffs, IndexPath(i), Elem(oval, i), Elem(nval, i)),
                        errs + 1)
         ELSE arrayLoop(oval, nval, i + 1, diffs, errs)

\* Lines 277-295: for (i = 0; i < max; i++), then hasDiff = !!errs.
arrayLoop(oval, nval, i, diffs, errs) ==
    IF i < (IF Len(oval.e) > Len(nval.e) THEN Len(oval.e) ELSE Len(nval.e))
    THEN arrayElement(oval, nval, i, diffs, errs)
    ELSE DiffResults(errs # 0, diffs, FALSE)

computeArrayDiff(oval, nval) == arrayLoop(oval, nval, 0, EmptyFn, 0)

\* The recursion into two nested objects adds its entries to diffs but its
\* hasDiff flag is not taken over.
diffKey_FlagNotPropagated(ov, nv, at, curdiff) ==
    IF IsArray(ov) /\ IsArray(nv)
    THEN mergeArrayDiff(computeArrayDiff(ov, nv), at, curdiff)
    ELSE IF TypeOf(ov) = "object" /\ TypeOf(nv) = "object"
         THEN [computeDiff(ov, nv, at, curdiff) EXCEPT !.hasDiff = curdiff.hasDiff]
         ELSE IF StrictNotEqual(ov, nv)
              THEN DiffResults(TRUE, Put(curdiff.diffs, at, ov, nv), FALSE)
              ELSE curdiff

\* Lines 326-341: the body of the loop for one key; at is prefix + okey.
diffKey(ov, nv, at, curdiff) ==
    IF IsArray(ov) /\ IsArray(nv)
    THEN mergeArrayDiff(computeArrayDiff(ov, nv), at, curdiff)
    ELSE IF TypeOf(ov) = "object" /\ TypeOf(nv) = "object"
         THEN computeDiff(ov, nv, at, curdiff)
         ELSE IF StrictNotEqual(ov, nv)
              THEN DiffResults(TRUE, Put(curdiff.diffs, at, ov, nv), FALSE)
              ELSE curdiff

\* Lines 324-342: the loop over the merged keys; a throw ends it.
diffKeys(oval, nval, prefix, keys, curdiff) ==
    IF keys = {} \/ curdiff.thrown THEN curdiff
    ELSE diffKeys(oval, nval, prefix, keys \ {CHOOSE k \in keys : TRUE},
                  diffKey(Prop(oval, CHOOSE k \in keys : TRUE),
                          Prop(nval, CHOOSE k \in keys : TRUE),
                          prefix \o (CHOOSE k \in keys : TRUE), curdiff))

\* Lines 313-345.  Object.keys(null) throws a TypeError.
computeDiff(oval, nval, curpath, curdiff) ==
    IF oval.t = "null" \/ nval.t = "null" THEN Throws
    ELSE diffKeys(oval, nval, IF curpath # <<>> THEN curpath \o <<"/">> ELSE <<>>,
                  mergeArrays(ObjectKeys(oval), ObjectKeys(nval)), curdiff)

(***************************************************************************)
(* The objects of a top-level call of the diff engine.  The inputs are     *)
(* objects of the heap, read as they are when the call is made; the        *)
(* DiffResults the call returns is an object { hasDiff, diffs } whose      *)
(* diffs is an object of its own.  A pair [ov, nv] stored in diffs is      *)
(* kept by value.  The results of the nested calls and the examined maps   *)
(* are locals that no caller sees; they are not kept.                      *)
(***************************************************************************)
HasDiffKey == <<"h", "a", "s", "D", "i", "f", "f">>

DiffsKey == <<"d", "i", "f", "f", "s">>

\* The value read from the heap: a map's entries, an array's elements (a
\* hole reads undefined).
RECURSIVE TreeOf(_, _)
TreeOf(h, v) ==
    IF v.t # "ref" THEN v
    ELSE IF h[v.a].kind = "map"
         THEN MapV([k \in DOMAIN h[v.a].props |-> TreeOf(h, h[v.a].props[k])])
         ELSE ArrV([i \in 1..h[v.a].len |->
                      IF NumToStr(i - 1) \in DOMAIN h[v.a].props
                      THEN TreeOf(h, h[v.a].props[NumToStr(i - 1)])
                      ELSE Undef])

\* { hasDiff: false, diffs: {} }: two new objects, res is the DiffResults.
newResults(h) ==
    [h |-> Append(Append(h, NewMap),
                  [kind |-> "map", len |-> 0,
                   props |-> (HasDiffKey :> Bool(FALSE)) @@ (DiffsKey :> Ref(Len(h) + 1))]),
     res |-> Ref(Len(h) + 2)]

\* One DiffResults is made by the first call and handed out by every call.
diffTarget_Shared(h, diff) ==
    IF \E a \in 1..Len(h) : HasDiffKey \in DOMAIN h[a].props
    THEN [h |-> h, res |-> Ref(CHOOSE a \in 1..Len(h) : HasDiffKey \in DOMAIN h[a].props)]
    ELSE newResults(h)

\* Line 321: curdiff = diff ?? { hasDiff: false, diffs: {} }
diffTarget(h, diff) ==
    IF IsNullish(diff) THEN newResults(h) ELSE [h |-> h, res |-> diff]

\* The entries of the diffs object at address d after the writes of r.
storedDiffs(h, d, r) ==
    [p \in DOMAIN h[d].props \cup DOMAIN r.diffs |->
        IF p \in DOMAIN r.diffs THEN ArrV(r.diffs[p]) ELSE h[d].props[p]]

\* The writes of the call to its DiffResults t.res (lines 283-284, 294,
\* 331-340); r is what the call computed.  A call that throws returns
\* nothing.
storeResults(t, r) ==
    IF r.thrown THEN [h |-> t.h, res |-> Undef, r |-> r]
    ELSE [h |-> [SetProp(t.h, t.res.a, HasDiffKey, Bool(r.hasDiff))
                    EXCEPT ![t.h[t.res.a].props[DiffsKey].a].props =
                               storedDiffs(t.h, t.h[t.res.a].props[DiffsKey].a, r)],
          res |-> t.res, r |-> r]

\* computeDiff(oval, nval) called with two arguments.
callComputeDiff(h, oval, nval) ==
    storeResults(diffTarget(h, Undef),
                 computeDiff(TreeOf(h, oval), TreeOf(h, nval), <<>>, NoDiffs))

\* computeArrayDiff(oval, nval)
callComputeArrayDiff(h, oval, nval) ==
    storeResults(newResults(h), computeArrayDiff(TreeOf(h, oval), TreeOf(h, nval)))

(***************************************************************************)
(* areArraysSame, areObjectsSame, areValuesSame: the equality test.  The   *)
(* operands are values of the heap: two objects are === when they are the  *)
(* same object.                                                            *)
(***************************************************************************)
\* What a call gives: it returns same, or it throws a TypeError.
Same(same) == [same |-> same, thrown |-> FALSE]

SameThrows == [same |-> FALSE, thrown |-> TRUE]

\* v instanceof Array, for a value of the heap.
IsArrayRef(h, v) == v.t = "ref" /\ h[v.a].kind = "arr"

\* Lines 114-124: the lengths, then oval[i] !== nval[i] for (const i in oval).
areArraysSame(h, oval, nval) ==
    IF h[oval.a].len # h[nval.a].len THEN Same(FALSE)
    ELSE Same(\A i \in DOMAIN h[oval.a].props :
                 ~StrictNotEqual(GetProp(h, oval, i), GetProp(h, nval, i)))

RECURSIVE areValuesSame(_, _, _)
RECURSIVE sameKeys(_, _, _, _)

\* Lines 141-149: every key of nval has been examined as a key of oval.
sameNewKeys(h, oval, nval) ==
    Same(DOMAIN h[nval.a].props \subseteq DOMAIN h[oval.a].props)

\* Lines 134-139: r is areValuesSame(oval[okey], nval[okey]) for the first
\* of okeys.
sameKey(h, oval, nval, okeys, r) ==
    IF r.thrown \/ ~r.same THEN r
    ELSE sameKeys(h, oval, nval, okeys \ {CHOOSE k \in okeys : TRUE})

\* Lines 133-149: the loop over the keys of oval, then the one over nval's.
sameKeys(h, oval, nval, okeys) ==
    IF okeys = {} THEN sameNewKeys(h, oval, nval)
    ELSE sameKey(h, oval, nval, okeys,
                 areValuesSame(h, GetProp(h, oval, CHOOSE k \in okeys : TRUE),
                               GetProp(h, nval, CHOOSE k \in okeys : TRUE)))

\* Lines 126-150.  Object.keys(null) throws a TypeError.
areObjectsSame(h, oval, nval) ==
    IF oval.t = "null" \/ nval.t = "null" THEN SameThrows
    ELSE IF Cardinality(DOMAIN h[oval.a].props) # Cardinality(DOMAIN h[nval.a].props)
         THEN Same(FALSE)
         ELSE sameKeys(h, oval, nval, DOMAIN h[oval.a].props)

\* Lines 152-161.
areValuesSame(h, oval, nval) ==
    IF IsArrayRef(h, oval) /\ IsArrayRef(h, nval) THEN areArraysSame(h, oval, nval)
    ELSE IF oval.t \in {"ref", "null"} /\ nval.t \in {"ref", "null"}
         THEN areObjectsSame(h, oval, nval)
         ELSE Same(~StrictNotEqual(oval, nval))

(***************************************************************************)
(* Inputs of the diff engine                                               *)
(***************************************************************************)
DiffScalars == {Undef, Null, Bool(TRUE), Num(1), Str(<<"1">>)}

\* Nested maps, one and two levels deep.
DiffMaps ==
    MapsOver({<<"s">>}, {Null, Num(1), Str(<<"1">>)})
        \cup {MapV([k \in {<<"s">>} |-> MapV([j \in {<<"s">>} |-> Num(1)])])}

DiffElements == {Null, Num(1), Str(<<"1">>), MapV([k \in {<<"s">>} |-> Num(1)]), EmptyMapV}

DiffArrays ==
    UNION { {ArrV(e) : e \in [1..n -> DiffElements]} : n \in 0..MaxArrLen }

\* The arrays held inside a snapshot are shorter than MaxArrLen.
DiffValues ==
    DiffScalars \cup DiffMaps \cup {arr \in DiffArrays : Len(arr.e) < MaxArrLen}

\* A snapshot: key a holds any value, key b a scalar; either may be absent.
Snapshots ==
    { MapV(f) : f \in UNION { {g \in [d -> DiffValues] : <<"b">> \in d => g[<<"b">>] = Num(1)} :
                                 d \in SUBSET {<<"a">>, <<"b">>} } }

(***************************************************************************)
(* The form context of useDynamicFormContext and a managed single-value    *)
(* control (src/src/DynamicForm.tsx).  The form of a context is what its   *)
(* useState holds: { state, formStatus, refreshCount }; of formStatus the  *)
(* status is kept.  A handler runs against the context of the current      *)
(* render; the setForm calls it makes are applied when it ends, the last   *)
(* one last.  The form has no parent form.                                 *)
(***************************************************************************)
\* A function value, named after the prop that holds it.
Fn(name) == [t |-> "fn", name |-> name]

\* formStatus.status is undefined.
NoStatus == "undefined"

Form(state, status, refreshCount) ==
    [state |-> state, formStatus |-> [status |-> status], refreshCount |-> refreshCount]

\* What a handler does: the form after it, and the calls it made, in order.
Handled(f, calls) == [form |-> f, calls |-> calls]

\* ping(action, curState, payload)
Ping(action, curState, payload) ==
    [fn |-> "ping", action |-> action, curState |-> curState, payload |-> payload]

\* A call of setForm, or of a function the caller supplied.
Called(fn) == [fn |-> fn, action |-> "", curState |-> Undef, payload |-> Undef]

\* Lines 147-155: the initial value of useState.
initialForm(p) == Form(p.initValues, NoStatus, 0)

\* Every key is kept, those that hold undefined too.
removeUndefinedFromObj_Keep(obj) == obj

\* Lines 126-135.
removeUndefinedFromObj(obj) ==
    MapV([k \in {x \in DOMAIN obj.m : obj.m[x] # Undef} |-> obj.m[k]])

\* { ...a, ...s } for two maps.
spreadOver(a, s) ==
    MapV([k \in DOMAIN a.m \cup DOMAIN s.m |-> IF k \in DOMAIN s.m THEN s.m[k] ELSE a.m[k]])

\* Lines 206-210 and 216-219: the state the form is given.
mergedState(state, s) ==
    IF s = Undef THEN s
    ELSE removeUndefinedFromObj(spreadOver(IF IsNullish(state) THEN EmptyMapV ELSE state, s))

\* Lines 212-213.
nextStatus(state, s) == IF s = Undef \/ state = Undef THEN NoStatus ELSE "dirty"

\* Lines 203-222: ctx.setState(s).  The setForm of the local setState (line
\* 205) is followed by the setForm of line 215, which is the one kept.
ctxSetState(f, s) ==
    Handled(Form(mergedState(f.state, s), nextStatus(f.state, s), f.refreshCount),
            <<Ping("beforeStateChange", f.state, s), Called("setForm"), Called("setForm")>>)

\* Lines 254-261: ctx.resetFn()
ctxResetFn(p, f) ==
    Handled(Form(p.initValues, NoStatus, f.refreshCount + 1),
            <<Ping("beforeReset", f.state, Undef), Called("setForm")>>)

\* Lines 262-265: ctx.cancelFn()
ctxCancelFn(p, f) ==
    Handled(f, <<Ping("beforeCancel", f.state, p.cancelFn)>>
                   \o (IF p.cancelFn # Undef THEN <<Called("cancelFn")>> ELSE <<>>))

\* Lines 780-786: the effect of DynamicForm, run after a render.
loadEffect(p, f) ==
    IF f.state # Undef THEN Handled(f, <<>>)
    ELSE ctxSetState(f, IF IsNullish(p.initValues) THEN EmptyMapV ELSE p.initValues)

\* Lines 397-416, isArray unset: state[name]
getInitialStateValue(name, state) == Prop(state, name)

\* Line 472: val ?? control.props.value ?? ''
initValOf(val, ctrlValue) ==
    IF ~IsNullish(val) THEN val ELSE IF ~IsNullish(ctrlValue) THEN ctrlValue ELSE Str(<<>>)

\* Lines 479-489: evt is [checked, value], what evt.target holds.
valFromEvent(isToggleCtrl, initVal, toggleFalse, evt) ==
    IF isToggleCtrl
    THEN IF evt.checked THEN (IF Truthy(initVal) THEN initVal ELSE Bool(TRUE))
         ELSE toggleFalse
    ELSE evt.value

\* Lines 497-499: val !== state[name] || val !== initVal
shouldStateChange(val, state, name, initVal) ==
    StrictNotEqual(val, Prop(state, name)) \/ StrictNotEqual(val, initVal)

\* { [name]: val }
OneKey(name, val) == MapV([k \in {name} |-> val])

\* Lines 697-701: onBlur of the control named name, whose local state is val.
onBlur(f, name, val, ctrlValue) ==
    IF shouldStateChange(val, f.state, name, initValOf(val, ctrlValue))
    THEN ctxSetState(f, OneKey(name, val))
    ELSE Handled(f, <<>>)

\* The local state of the control: it is mounted while DynamicForm renders
\* its children (line 788), and val is what its useState holds.
Unmounted == [mounted |-> FALSE, val |-> Undef]

Mounted(val) == [mounted |-> TRUE, val |-> val]

\* The control after the form has gone from f to g: no children are
\* rendered while the state is undefined; a control that is mounted, or
\* mounted anew since the key of the provider (line 793) has changed, takes
\* its val from the state (line 683).
renderControl(c, name, f, g) ==
    IF g.state = Undef THEN Unmounted
    ELSE IF ~c.mounted \/ g.refreshCount # f.refreshCount
         THEN Mounted(getInitialStateValue(name, g.state))
         ELSE c

(***************************************************************************)
(* composeValidatorNormalizer (src/unnamed/part_001).  params.validators   *)
(* is an object whose keys are kept in insertion order: a sequence of      *)
(* entries [key, does], where does says what the ValidationFn under key    *)
(* does when it is called: it passes (returns undefined) or it throws a    *)
(* FieldValidationError with the message of its key.                       *)
(***************************************************************************)
FinalKey == <<"*">>

Validator(key, does) == [key |-> key, does |-> does]

\* The message of the error the ValidationFn under key throws.
messageOf(key) == <<"invalid ">> \o key

\* fkey.includes('&')
IsMultiField(fkey) == \E i \in 1..Len(fkey) : fkey[i] = "&"

\* validators[key], undefined when there is none.
validatorAt(vs, key) ==
    IF \E i \in 1..Len(vs) : vs[i].key = key
    THEN vs[CHOOSE i \in 1..Len(vs) : vs[i].key = key]
    ELSE Undef

\* Line 102: delete validators['*']
deleteFinal(vs) == SelectSeq(vs, LAMBDA e : e.key # FinalKey)

\* Lines 105-113: the keys are sorted into single and multi fields.
singleFields(vs) == SelectSeq(vs, LAMBDA e : ~IsMultiField(e.key))

multiFields(vs) == SelectSeq(vs, LAMBDA e : IsMultiField(e.key))

\* What the loops carry: norm, errs, ecount and the calls made so far, each
\* a pair of the key of the ValidationFn and the argument it was given.
Validating(norm, errs, ecount, calls) ==
    [norm |-> norm, errs |-> errs, ecount |-> ecount, calls |-> calls]

\* errs[key] = message
withError(errs, key, message) ==
    [k \in DOMAIN errs \cup {key} |-> IF k = key THEN message ELSE errs[k]]

\* Lines 119-121 and 131-133: the ValidationFn e is called with arg; when
\* it throws, the catch records errs[fieldName] = e.message.
fieldOutcome(e, arg, norm, acc) ==
    IF e.does = "throws"
    THEN Validating(acc.norm, withError(acc.errs, e.key, messageOf(e.key)), acc.ecount + 1,
                    Append(acc.calls, <<e.key, arg>>))
    ELSE Validating(norm, acc.errs, acc.ecount, Append(acc.calls, <<e.key, arg>>))

\* Lines 118-136: norm[fieldName] = validators[fieldName](v) ?? v
singleField(e, obj, acc) ==
    fieldOutcome(e, Prop(obj, e.key),
                 spreadOver(acc.norm, OneKey(e.key, Prop(obj, e.key))), acc)

\* Lines 138-155: validators[fieldName](norm)
multiField(e, acc) == fieldOutcome(e, acc.norm, acc.norm, acc)

RECURSIVE singleLoop(_, _, _)
singleLoop(fields, obj, acc) ==
    IF fields = <<>> THEN acc
    ELSE singleLoop(Tail(fields), obj, singleField(fields[1], obj, acc))

RECURSIVE multiLoop(_, _)
multiLoop(fields, acc) ==
    IF fields = <<>> THEN acc
    ELSE multiLoop(Tail(fields), multiField(fields[1], acc))

\* What a call of the composed validator gives: it throws errClass(model,
\* errMap) or returns norm; validators is params.validators after the call.
Validated(vs, calls, thrown, errMap, norm) ==
    [validators |-> vs, calls |-> calls, thrown |-> thrown, errMap |-> errMap, norm |-> norm]

\* Lines 157-161, for what the two loops have gathered.
validationEnd(vs, acc) ==
    IF acc.ecount # 0 THEN Validated(vs, acc.calls, TRUE, acc.errs, Undef)
    ELSE Validated(vs, acc.calls, FALSE, EmptyFn, acc.norm)

\* Lines 100-155, for finalValidator = validators['*'] and the validators
\* left after the delete.
validateWith(finalValidator, vs, obj) ==
    validationEnd(vs, multiLoop(multiFields(vs),
                                singleLoop(singleFields(vs), obj,
                                           Validating(obj, EmptyFn, 0, <<>>))))

\* Lines 91-162: the function composeValidatorNormalizer returns, called
\* with obj.
composedValidator(vs, obj) ==
    IF ~Truthy(obj)
    THEN Validated(vs, <<>>, TRUE,
                   [k \in {FinalKey} |-> <<"object empty">>], Undef)
    ELSE validateWith(validatorAt(vs, FinalKey), deleteFinal(vs), obj)

(***************************************************************************)
(* The DynamicForm of src/unnamed/part_003: makeDynFormContext, the        *)
(* collection pass collectAllInputValues and detectChanges.  The form      *)
(* holds a text input and a checkbox, in document order; the data objects  *)
(* are objects of the heap.                                                *)
(***************************************************************************)
TextName == <<"t">>

CheckName == <<"c">>

\* The value attribute of the checkbox.
CheckValue == Str(<<"v">>)

\* What JSON.stringify keeps of a value: a key that holds undefined is
\* dropped, undefined and NaN in an array become null.
RECURSIVE jsonOf(_)
jsonOf(tv) ==
    IF tv.t = "map"
    THEN MapV([k \in {x \in DOMAIN tv.m : tv.m[x] # Undef} |-> jsonOf(tv.m[k])])
    ELSE IF tv.t = "arr"
         THEN ArrV([i \in 1..Len(tv.e) |->
                      IF tv.e[i] \in {Undef, NaNV} THEN Null ELSE jsonOf(tv.e[i])])
         ELSE IF tv = NaNV THEN Null ELSE tv

\* Line 23: JSON.parse(JSON.stringify(obj)), new objects throughout.
cloneObj(h, obj) == LoadVal(h, jsonOf(TreeOf(h, obj)))

\* Object.assign(target, source): the properties of source are copied, the
\* objects they refer to are shared.
RECURSIVE assignKeys(_, _, _, _)
assignKeys(h, a, source, ks) ==
    IF ks = {} THEN h
    ELSE assignKeys(SetProp(h, a, CHOOSE k \in ks : TRUE, source[CHOOSE k \in ks : TRUE]),
                    a, source, ks \ {CHOOSE k \in ks : TRUE})

objectAssign(h, target, source) ==
    assignKeys(h, target.a, h[source.a].props, DOMAIN h[source.a].props)

\* A collection pass: the heap after it, and whether it threw.
Collected(h, thrown) == [h |-> h, thrown |-> thrown]

\* Lines 235-239: ptr[key] = [ctrl.value] when ptr[key] is undefined,
\* ptr[key].push(ctrl.value) otherwise.
createOrAppend(h, ptr, key, value) ==
    IF GetProp(h, ptr, key) = Undef
    THEN Collected(SetProp(SetProp(Append(h, NewArr), Len(h) + 1, NumToStr(0), value),
                           ptr.a, key, Ref(Len(h) + 1)), FALSE)
    ELSE IF ~IsArrayRef(h, GetProp(h, ptr, key)) THEN Collected(h, TRUE)
         ELSE Collected(SetProp(h, GetProp(h, ptr, key).a,
                                NumToStr(h[GetProp(h, ptr, key).a].len), value), FALSE)

\* Lines 222-259: the insertFn of the control ctrl, called with ptr.
insertControl(h, ptr, ctrl) ==
    IF ptr.t # "ref" THEN Collected(h, TRUE)
    ELSE IF ctrl.type = "checkbox"
         THEN IF ~ctrl.checked THEN Collected(h, FALSE)
              ELSE createOrAppend(h, ptr, ctrl.name, ctrl.value)
         ELSE Collected(SetProp(h, ptr.a, ctrl.name, ctrl.value), FALSE)

\* Lines 220-222 and 182-183: insertValueByPath(data, getScope(ctrl),
\* insertFn), for the run r of the call up to insertFn?.(ptr).
collectInto(r, ctrl) ==
    IF r.thrown # "none" THEN Collected(r.h, TRUE)
    ELSE insertControl(r.h, r.ptr, ctrl)

\* Lines 212-268: the forEach over the controls; a throw ends the pass.
\* There are no sub-forms.
RECURSIVE collectAllInputValues(_, _, _)
collectNext(c, dataRef, ctrls) ==
    IF c.thrown THEN c ELSE collectAllInputValues(c.h, dataRef, ctrls)

collectAllInputValues(h, dataRef, ctrls) ==
    IF ctrls = <<>> THEN Collected(h, FALSE)
    ELSE collectNext(collectInto(insertValueByPath(h, dataRef, ctrls[1].scope, NoInsert),
                                 ctrls[1]),
                     dataRef, Tail(ctrls))

\* A pass of detectChanges: the heap after it, the hasDiff of the diff it
\* computed, the events it emitted, and whether it threw.
Detected(h, hasDiff, emitted, thrown) ==
    [h |-> h, hasDiff |-> hasDiff, emitted |-> emitted, thrown |-> thrown]

\* Lines 575-579, for diff = computeDiff(curDataRef.current, data).
applyDiff(h, current, collected, diff) ==
    IF diff.thrown THEN Detected(h, FALSE, <<>>, TRUE)
    ELSE IF diff.hasDiff
         THEN Detected(objectAssign(h, current, collected), TRUE, <<"control-update">>, FALSE)
         ELSE Detected(h, FALSE, <<>>, FALSE)

\* Lines 570-575, for the collection pass c on the clone.
diffCollected(c, current, clone) ==
    IF c.thrown THEN Detected(c.h, FALSE, <<>>, TRUE)
    ELSE applyDiff(c.h, current, clone,
                   computeDiff(TreeOf(c.h, current), TreeOf(c.h, clone), <<>>, NoDiffs))

\* Lines 566-580: detectChanges, for clone = cloneObj(curDataRef.current).
detectOn(clone, current, ctrls) ==
    diffCollected(collectAllInputValues(clone.h, clone.v, ctrls), current, clone.v)

detectChanges(h, current, ctrls) == detectOn(cloneObj(h, current), current, ctrls)

\* Lines 473-480 and 559-564: makeDynFormContext(p) and the first render of
\* DynamicForm.  made is the heap that holds initialData = p.initialData ??
\* {}; the context's own curDataRef.current is a clone of it, and the render
\* sets it, and the form's curDataRef.current, to ctx.initialData.
renderedForm(made) ==
    [h |-> cloneObj(made.h, made.v).h, initialData |-> made.v, current |-> made.v]

makeDynFormContext(initialData) ==
    renderedForm(LoadVal(<<>>, IF IsNullish(initialData) THEN EmptyMapV ELSE initialData))

\* Lines 495-503, atPath not given: Object.assign(initialData, data), for the
\* heap loaded.h that holds data at loaded.v.
setInitialData(loaded, initialData) == objectAssign(loaded.h, initialData, loaded.v)

(***************************************************************************)
(* State                                                                   *)
(***************************************************************************)
VARIABLES
    heap,     \* the objects of the data graph
    data,     \* the root FormData passed to insertValueByPath; for the diff
              \* engine, the two inputs [old, new] of its calls
    path,     \* the path the caller resolves
    log,      \* one record per call made: its outcome and the heap before it
    oldSnap,  \* the old snapshot (or array) as it is before the first call
    newSnap,  \* the new snapshot (or array) as it is before the first call
    diffOut,  \* what the diff engine computed last, op = "none" before
    children, \* the children map of the parent context's current render
    reported, \* the status each child form reported last
    saves,    \* one record per call of the parent context's saveFn
    hookProps,  \* the props useDynamicFormContext and the control are given
    formCtx,    \* what the useState of the form context holds
    control,    \* the local state of the managed control
    trace,      \* the handler that ran last: the form before it, its calls
    validators, \* params.validators of the composed validator
    validated,  \* the last call of the composed validator
    dom         \* the controls of the DynamicForm, and whether it is mounted

vars ==
    <<heap, data, path, log, oldSnap, newSnap, diffOut, children, reported, saves,
      hookProps, formCtx, control, trace, validators, validated, dom>>

ctxVars == <<hookProps, formCtx, control, trace>>

validatorVars == <<validators, validated>>

laterVars == <<ctxVars, validatorVars, dom>>

formVars == <<children, reported, saves>>

diffVars == <<oldSnap, newSnap, diffOut>>

NotCalled == [op |-> "none"]

\* The values of the variables a specification does not use.
NoContext ==
    /\ hookProps = Undef
    /\ formCtx = Undef
    /\ control = Unmounted
    /\ trace = NotCalled

NoValidator == validators = <<>> /\ validated = NotCalled

NoDom == dom = Undef

(***************************************************************************)
(* The path resolver: calls of insertValueByPath on one root and path      *)
(***************************************************************************)
Init ==
    /\ \E root \in Roots :
          /\ heap = LoadVal(<<>>, root).h
          /\ data = LoadVal(<<>>, root).v
    /\ path \in Paths
    /\ log = <<>>
    /\ oldSnap = EmptyMapV
    /\ newSnap = EmptyMapV
    /\ diffOut = NotCalled
    /\ children = EmptyFn
    /\ reported = EmptyFn
    /\ saves = <<>>
    /\ NoContext /\ NoValidator /\ NoDom

\* One call insertValueByPath(data, path, insertFn).
Returned(r, insert) ==
    /\ heap' = r.h
    /\ log' = Append(log, [insert |-> insert, thrown |-> r.thrown, msg |-> r.msg,
                           ret |-> r.ptr, called |-> r.called, arg |-> r.arg,
                           parsed |-> r.parsed, pre |-> heap])

Call(insert) ==
    /\ Len(log) < MaxCalls
    /\ Returned(insertValueByPath(heap, data, path, insert), insert)
    /\ UNCHANGED <<data, path>>
    /\ UNCHANGED diffVars
    /\ UNCHANGED formVars
    /\ UNCHANGED laterVars

\* insertValueByPath(data, path)
Resolve == Call(NoInsert)

\* insertValueByPath(data, path, ptr => ptr['key'] = 1)
ResolveInsert == Call(InsertKV(InsertKey, Num(1)))

Next == Resolve \/ ResolveInsert

Spec == Init /\ [][Next]_vars

(***************************************************************************)
(* The diff engine: one call on a pair of snapshots or of arrays           *)
(***************************************************************************)
\* The heap that holds old, then new, and the two values that refer to them.
loadNew(o, nval) == [h |-> LoadVal(o.h, nval).h, old |-> o.v, new |-> LoadVal(o.h, nval).v]

loadInputs(oval, nval) == loadNew(LoadVal(<<>>, oval), nval)

InitDiff ==
    /\ \/ oldSnap \in Snapshots /\ newSnap \in Snapshots
       \/ oldSnap \in DiffArrays /\ newSnap \in DiffArrays
    /\ heap = loadInputs(oldSnap, newSnap).h
    /\ data = [old |-> loadInputs(oldSnap, newSnap).old,
               new |-> loadInputs(oldSnap, newSnap).new]
    /\ path = <<>>
    /\ log = <<>>
    /\ diffOut = NotCalled
    /\ children = EmptyFn
    /\ reported = EmptyFn
    /\ saves = <<>>
    /\ NoContext /\ NoValidator /\ NoDom

\* The call c of op has ended.
DiffReturned(op, c) ==
    /\ heap' = c.h
    /\ diffOut' = [op |-> op, thrown |-> c.r.thrown, hasDiff |-> c.r.hasDiff,
                   diffs |-> c.r.diffs]
    /\ log' = Append(log, [op |-> op, res |-> c.res, pre |-> heap])

\* The call of areValuesSame has ended with r; res is what it returned.
SameReturned(r) ==
    log' = Append(log, [op |-> "areValuesSame", pre |-> heap,
                        res |-> IF r.thrown THEN Undef ELSE Bool(r.same)])

\* computeDiff(old, new)
ComputeDiff ==
    /\ Len(log) < MaxCalls
    /\ oldSnap.t = "map"
    /\ DiffReturned("computeDiff", callComputeDiff(heap, data.old, data.new))
    /\ UNCHANGED <<data, path, oldSnap, newSnap>>
    /\ UNCHANGED formVars
    /\ UNCHANGED laterVars

\* computeArrayDiff(old, new)
ComputeArrayDiff ==
    /\ Len(log) < MaxCalls
    /\ oldSnap.t = "arr"
    /\ DiffReturned("computeArrayDiff", callComputeArrayDiff(heap, data.old, data.new))
    /\ UNCHANGED <<data, path, oldSnap, newSnap>>
    /\ UNCHANGED formVars
    /\ UNCHANGED laterVars

\* areValuesSame(old, new)
AreValuesSame ==
    /\ Len(log) < MaxCalls
    /\ SameReturned(areValuesSame(heap, data.old, data.new))
    /\ UNCHANGED <<heap, data, path, oldSnap, newSnap, diffOut>>
    /\ UNCHANGED formVars
    /\ UNCHANGED laterVars

NextDiff == ComputeDiff \/ ComputeArrayDiff \/ AreValuesSame

SpecDiff == InitDiff /\ [][NextDiff]_vars

(***************************************************************************)
(* The form context: a parent form made by useDynamicFormContext with a    *)
(* saveFn of the caller, and the child forms that report their status to   *)
(* it.  The parent's setState, setFormStatus and resetFn call setForm with *)
(* a new object, so the hook is rendered again.                            *)
(***************************************************************************)
ChildIds == {"c1", "c2"}

\* FormStatus['status'] as a child reports it.
Statuses == {"ok", "err", "dirty"}

\* Lines 171-172: const children = {}, in the body of the hook.
newChildren == EmptyFn

\* Lines 179-184: children[id] = status
childStatusChange(ch, id, status) ==
    [c \in DOMAIN ch \cup {id} |-> IF c = id THEN status ELSE ch[c]]

\* Lines 232-249: the saveFn of the context; ret is what the saveFn of the
\* caller returns when it is executed.
saveFn(ch, ret) ==
    IF \E childId \in DOMAIN ch : ch[childId] = "err"
    THEN [status |-> "err", executed |-> FALSE]
    ELSE [status |-> ret, executed |-> TRUE]

InitForm ==
    /\ heap = <<>>
    /\ data = Undef
    /\ path = <<>>
    /\ log = <<>>
    /\ oldSnap = EmptyMapV
    /\ newSnap = EmptyMapV
    /\ diffOut = NotCalled
    /\ children = newChildren
    /\ reported = EmptyFn
    /\ saves = <<>>
    /\ NoContext /\ NoValidator /\ NoDom

\* Lines 204 and 225: a child form's setState or setFormStatus calls
\* parent.childStatusChange(ctx.formId, status) on the context it is given.
ChildReports ==
    /\ \E id \in ChildIds : \E status \in Statuses :
          /\ children' = childStatusChange(children, id, status)
          /\ reported' = childStatusChange(reported, id, status)
    /\ UNCHANGED saves
    /\ UNCHANGED <<heap, data, path, log>>
    /\ UNCHANGED diffVars
    /\ UNCHANGED laterVars

\* Lines 203-222: the parent's state changes; setForm renders the hook
\* again, and the body of the hook makes its locals anew.
ParentStateChange ==
    /\ children' = newChildren
    /\ UNCHANGED <<reported, saves>>
    /\ UNCHANGED <<heap, data, path, log>>
    /\ UNCHANGED diffVars
    /\ UNCHANGED laterVars

\* ctx.saveFn(state) of the current render.
ParentSaves ==
    /\ Len(saves) < MaxCalls
    /\ \E ret \in {"ok", "err"} :
          saves' = Append(saves, saveFn(children, ret)
                                 @@ [childErr |-> \E id \in DOMAIN reported :
                                                     reported[id] = "err"])
    /\ UNCHANGED <<children, reported>>
    /\ UNCHANGED <<heap, data, path, log>>
    /\ UNCHANGED diffVars
    /\ UNCHANGED laterVars

NextForm == ChildReports \/ ParentStateChange \/ ParentSaves

SpecForm == InitForm /\ [][NextForm]_vars

(***************************************************************************)
(* A DynamicForm (src/src/DynamicForm.tsx lines 758-796) around one        *)
(* managed single-value control, a text input or a checkbox without a      *)
(* value attribute: the handlers of the context and of the control.        *)
(***************************************************************************)
ManagedName == <<"m">>

OtherName == <<"o">>

\* What evt.target.value holds when the user has typed.
TypedValues == {Str(<<>>), Str(<<"v">>), Str(<<"w">>)}

InitValues ==
    {Undef, EmptyMapV, OneKey(ManagedName, Str(<<"v">>)), OneKey(OtherName, Str(<<"v">>))}

\* The arguments components give to ctx.setState.
Partials ==
    {Undef, EmptyMapV, OneKey(ManagedName, Undef), OneKey(ManagedName, Str(<<"w">>)),
     OneKey(OtherName, Undef), OneKey(OtherName, Str(<<"w">>))}

\* The props of the form (initValues, resetFn, cancelFn) and of the control
\* (its type, its value attribute, toggleFalse).
HookProps ==
    [initValues : InitValues, resetFn : {Undef, Fn("resetFn")},
     cancelFn : {Undef, Fn("cancelFn")}, isToggleCtrl : BOOLEAN,
     value : {Undef}, toggleFalse : {Undef}]

InitCtx ==
    /\ hookProps \in HookProps
    /\ formCtx = initialForm(hookProps)
    /\ control = renderControl(Unmounted, ManagedName, initialForm(hookProps),
                               initialForm(hookProps))
    /\ trace = NotCalled
    /\ heap = <<>>
    /\ data = Undef
    /\ path = <<>>
    /\ log = <<>>
    /\ oldSnap = EmptyMapV
    /\ newSnap = EmptyMapV
    /\ diffOut = NotCalled
    /\ children = EmptyFn
    /\ reported = EmptyFn
    /\ saves = <<>>
    /\ NoValidator /\ NoDom

\* The handler op, called with arg, has done r; the form is rendered again.
HandlerRan(op, arg, r) ==
    /\ formCtx' = r.form
    /\ control' = renderControl(control, ManagedName, formCtx, r.form)
    /\ trace' = [op |-> op, arg |-> arg, pre |-> formCtx, val |-> control.val,
                 calls |-> r.calls]
    /\ UNCHANGED hookProps
    /\ UNCHANGED <<heap, data, path, log>>
    /\ UNCHANGED diffVars
    /\ UNCHANGED formVars
    /\ UNCHANGED <<validatorVars, dom>>

\* Lines 780-786: the effect of DynamicForm finds the state undefined and
\* calls ctx.setState(initValues ?? {}).
LoadEffect ==
    /\ formCtx.state = Undef
    /\ HandlerRan("setState",
                  IF IsNullish(hookProps.initValues) THEN EmptyMapV ELSE hookProps.initValues,
                  loadEffect(hookProps, formCtx))

\* A component calls ctx.setState(s).
CallSetState == \E s \in Partials : HandlerRan("setState", s, ctxSetState(formCtx, s))

\* Lines 693-696: onChange; setVal(formatValue(nval)), formatValue being
\* the default v => v.
Change ==
    /\ control.mounted
    /\ \E evt \in [checked : BOOLEAN, value : TypedValues] :
          /\ control' = Mounted(valFromEvent(hookProps.isToggleCtrl,
                                             initValOf(control.val, hookProps.value),
                                             hookProps.toggleFalse, evt))
          /\ trace' = [op |-> "change", arg |-> Undef, pre |-> formCtx, val |-> control.val,
                       calls |-> <<>>]
    /\ UNCHANGED <<hookProps, formCtx>>
    /\ UNCHANGED <<heap, data, path, log>>
    /\ UNCHANGED diffVars
    /\ UNCHANGED formVars
    /\ UNCHANGED <<validatorVars, dom>>

\* Lines 697-701: onBlur
Blur ==
    /\ control.mounted
    /\ HandlerRan("blur", Undef, onBlur(formCtx, ManagedName, control.val, hookProps.value))

\* ctx.resetFn()
Reset ==
    /\ formCtx.refreshCount < MaxCalls
    /\ HandlerRan("resetFn", Undef, ctxResetFn(hookProps, formCtx))

\* ctx.cancelFn()
Cancel == HandlerRan("cancelFn", Undef, ctxCancelFn(hookProps, formCtx))

NextCtx == LoadEffect \/ CallSetState \/ Change \/ Blur \/ Reset \/ Cancel

SpecCtx == InitCtx /\ [][NextCtx]_vars

(***************************************************************************)
(* The composed validator: calls of the function that                      *)
(* composeValidatorNormalizer returns, on one params.validators            *)
(***************************************************************************)
ValidatorKeys == {<<"a">>, <<"a", "&", "b">>, FinalKey}

ValidatorEntries == {Validator(k, does) : k \in ValidatorKeys, does \in {"passes", "throws"}}

\* The validators objects: at most one ValidationFn per key, in any order.
ValidatorMaps ==
    UNION { {vs \in [1..n -> ValidatorEntries] :
                \A i, j \in 1..n : i # j => vs[i].key # vs[j].key} :
            n \in 0..Cardinality(ValidatorKeys) }

ValidatedObjects == {Undef, EmptyMapV, OneKey(<<"a">>, Num(1))}

InitValidate ==
    /\ validators \in ValidatorMaps
    /\ validated = NotCalled
    /\ heap = <<>>
    /\ data = Undef
    /\ path = <<>>
    /\ log = <<>>
    /\ oldSnap = EmptyMapV
    /\ newSnap = EmptyMapV
    /\ diffOut = NotCalled
    /\ children = EmptyFn
    /\ reported = EmptyFn
    /\ saves = <<>>
    /\ NoContext /\ NoDom

\* The call on obj has ended with r; pre is params.validators before it.
ValidatorReturned(obj, r) ==
    /\ validators' = r.validators
    /\ validated' = [op |-> "validate", obj |-> obj, pre |-> validators, calls |-> r.calls,
                     thrown |-> r.thrown, errMap |-> r.errMap, norm |-> r.norm]

\* validate(obj), for validate = composeValidatorNormalizer(params)
Validate ==
    /\ \E obj \in ValidatedObjects : ValidatorReturned(obj, composedValidator(validators, obj))
    /\ UNCHANGED <<heap, data, path, log>>
    /\ UNCHANGED diffVars
    /\ UNCHANGED formVars
    /\ UNCHANGED <<ctxVars, dom>>

NextValidate == Validate

SpecValidate == InitValidate /\ [][NextValidate]_vars

(***************************************************************************)
(* The DynamicForm of part_003: its effect, the user's changes to the two  *)
(* controls, passes of detectChanges and calls of ctx.setInitialData.      *)
(* data holds the context's initialData, the form's curDataRef.current and *)
(* clean, the value initialData was created with or last set to.           *)
(***************************************************************************)
InitialDatas ==
    {Undef, OneKey(TextName, Str(<<"x">>)), OneKey(CheckName, ArrV(<<CheckValue>>)),
     OneKey(<<"a">>, OneKey(TextName, Str(<<"x">>)))}

TextValues == {Str(<<>>), Str(<<"x">>)}

\* data-dfr-scope of the element that holds the text input.
Scopes == {<<>>, <<"a">>}

\* The controls querySelectorAll finds, in document order.
Controls(d) ==
    << [type |-> "text", name |-> TextName, value |-> d.text, scope |-> d.scope,
        checked |-> FALSE],
       [type |-> "checkbox", name |-> CheckName, value |-> CheckValue, scope |-> <<>>,
        checked |-> d.checked] >>

\* The form made from p.initialData and rendered once.
FormMade(made) ==
    /\ heap = made.h
    /\ data = [initialData |-> made.initialData, current |-> made.current,
               clean |-> TreeOf(made.h, made.initialData)]

InitDetect ==
    /\ \E initialData \in InitialDatas : FormMade(makeDynFormContext(initialData))
    /\ dom \in [text : TextValues, scope : Scopes, checked : BOOLEAN, mounted : {FALSE},
                touched : {FALSE}]
    /\ path = <<>>
    /\ log = <<>>
    /\ oldSnap = EmptyMapV
    /\ newSnap = EmptyMapV
    /\ diffOut = NotCalled
    /\ children = EmptyFn
    /\ reported = EmptyFn
    /\ saves = <<>>
    /\ NoContext /\ NoValidator

\* Lines 588-593: the effect collects the controls into curDataRef.current.
Mount ==
    /\ ~dom.mounted
    /\ heap' = collectAllInputValues(heap, data.current, Controls(dom)).h
    /\ dom' = [dom EXCEPT !.mounted = TRUE]
    /\ UNCHANGED <<data, path, log>>
    /\ UNCHANGED diffVars
    /\ UNCHANGED formVars
    /\ UNCHANGED <<ctxVars, validatorVars>>

\* The user types into the text input.
TypeText ==
    /\ \E v \in TextValues \ {dom.text} : dom' = [dom EXCEPT !.text = v, !.touched = TRUE]
    /\ UNCHANGED <<heap, data, path, log>>
    /\ UNCHANGED diffVars
    /\ UNCHANGED formVars
    /\ UNCHANGED <<ctxVars, validatorVars>>

\* The user checks or unchecks the checkbox.
ToggleCheckbox ==
    /\ dom' = [dom EXCEPT !.checked = ~dom.checked, !.touched = TRUE]
    /\ UNCHANGED <<heap, data, path, log>>
    /\ UNCHANGED diffVars
    /\ UNCHANGED formVars
    /\ UNCHANGED <<ctxVars, validatorVars>>

\* The pass r of detectChanges has ended; touched says whether a control
\* was changed since the pass before.
DetectReturned(r) ==
    /\ heap' = r.h
    /\ log' = Append(log, [op |-> "detectChanges", hasDiff |-> r.hasDiff,
                           emitted |-> r.emitted, thrown |-> r.thrown,
                           touched |-> dom.touched, pre |-> heap])
    /\ dom' = [dom EXCEPT !.touched = FALSE]

\* Lines 582-586 and 595-597: a blur, or the event 'detect-changes'.
DetectChanges ==
    /\ dom.mounted
    /\ Len(log) < MaxCalls
    /\ DetectReturned(detectChanges(heap, data.current, Controls(dom)))
    /\ UNCHANGED <<data, path>>
    /\ UNCHANGED diffVars
    /\ UNCHANGED formVars
    /\ UNCHANGED <<ctxVars, validatorVars>>

\* ctx.setInitialData(d) has left the heap h.
InitialDataSet(h) ==
    /\ heap' = h
    /\ data' = [data EXCEPT !.clean = TreeOf(h, data.initialData)]
    /\ log' = Append(log, [op |-> "setInitialData", hasDiff |-> FALSE, emitted |-> <<>>,
                           thrown |-> FALSE, touched |-> dom.touched, pre |-> heap])

\* ctx.setInitialData({t: 'x'})
SetInitialData ==
    /\ Len(log) < MaxCalls
    /\ InitialDataSet(setInitialData(LoadVal(heap, OneKey(TextName, Str(<<"x">>))),
                                     data.initialData))
    /\ UNCHANGED <<path, dom>>
    /\ UNCHANGED diffVars
    /\ UNCHANGED formVars
    /\ UNCHANGED <<ctxVars, validatorVars>>

NextDetect == Mount \/ TypeText \/ ToggleCheckbox \/ DetectChanges \/ SetInitialData

SpecDetect == InitDetect /\ [][NextDetect]_vars

(***************************************************************************)
(* Vocabulary of the properties of the path resolver                       *)
(***************************************************************************)
\* The '/'-separated segments of the path.
Comps == Split(path, "/")

Count(s, c) == Cardinality({i \in 1..Len(s) : s[i] = c})

HasBrackets(seg) ==
    /\ Count(seg, "[") = 1
    /\ Count(seg, "]") = 1
    /\ seg[Len(seg)] = "]"

\* segment = name ["[" bracket-content "]"]; an empty segment ends the path.
WellFormedSeg(seg) ==
    \/ Count(seg, "[") = 0 /\ Count(seg, "]") = 0
    \/ HasBrackets(seg)

SegName(seg) == SubSeq(seg, 1, IndexOf(seg, "[") - 1)

SegContent(seg) == SubSeq(seg, IndexOf(seg, "[") + 1, Len(seg) - 1)

AllDigits(c) == c # <<>> /\ \A i \in 1..Len(c) : DigitIn(c[i], 10) >= 0

\* The content is an integer in its entirety.
WholeInt(c) == AllDigits(c) \/ (c # <<>> /\ c[1] = "-" /\ AllDigits(Tail(c)))

WholeIntVal(c) ==
    IF c[1] = "-" THEN 0 - DigitsVal(Tail(c), 10, 0) ELSE DigitsVal(c, 10, 0)

\* '[]' or '[<int>]'
UnnamedArraySeg(seg) ==
    /\ HasBrackets(seg)
    /\ SegName(seg) = <<>>
    /\ (SegContent(seg) = <<>> \/ WholeInt(SegContent(seg)))

\* 'name[]'
AppendSeg(seg) ==
    /\ HasBrackets(seg)
    /\ SegName(seg) # <<>>
    /\ SegContent(seg) = <<>>

\* A well-formed path without unnamed-array segments.
NamedPath ==
    \A i \in 1..Len(Comps) : WellFormedSeg(Comps[i]) /\ ~UnnamedArraySeg(Comps[i])

\* The heap after call i.
After(i) == IF i = Len(log) THEN heap ELSE log[i + 1].pre

\* Every call is the last call of log in the state it leads to, and its
\* record and the heaps before and after it are never changed afterwards:
\* what holds of the last call in every reachable state holds of every call.
\* Likewise for two successive calls.
LastCall == IF log = <<>> THEN {} ELSE {Len(log)}

LastTwoCalls == IF Len(log) < 2 THEN {} ELSE {Len(log) - 1}

\* Reading the graph along the segments as the resolver understands them,
\* without creating anything; an append segment reads the last element.
LookupIn(h, t, pc) ==
    IF pc.isArray /\ pc.hasIndex THEN GetProp(h, t, NumToStr(pc.index))
    ELSE IF pc.isArray THEN GetProp(h, t, NumToStr(h[t.a].len - 1))
    ELSE IF pc.hasKey THEN GetProp(h, t, pc.key)
    ELSE t

LookupComp(h, v, pc) ==
    LookupIn(h, IF pc.name # <<>> THEN GetProp(h, v, pc.name) ELSE v, pc)

RECURSIVE Lookup(_, _, _)
Lookup(h, v, comps) ==
    IF comps = <<>> \/ comps[1] = <<>> THEN v
    ELSE Lookup(h, LookupComp(h, v, parsePathComponent(comps[1])), Tail(comps))

\* C1: for every root and every well-formed path without an unnamed-array
\* segment, insertValueByPath returns normally and never throws.
C1_Total ==
    \A i \in 1..Len(log) :
        (log[i].insert.none /\ NamedPath) => log[i].thrown = "none"

C3_UnnamedArrayThrows ==
    \A i \in LastCall : \A j \in 1..Len(log[i].parsed) :
        UnnamedArraySeg(Comps[j])
        => /\ log[i].thrown = "Error"
           /\ log[i].msg = <<"unnamed array not allowed. failed parsing '">>
                               \o Comps[j] \o <<"' in '">> \o path \o <<"'">>
           /\ ~log[i].called
           /\ Len(log[i].parsed) = j

\* A call with an insertFn reached an unnamed-array segment in second
\* position, after the first segment had resolved to an existing node.
C3_Witness ==
    \E i \in 1..Len(log) :
        /\ ~log[i].insert.none
        /\ Len(Comps) = 2
        /\ Comps[1] # <<>> /\ ~UnnamedArraySeg(Comps[1])
        /\ UnnamedArraySeg(Comps[2])
        /\ Len(log[i].parsed) = 2
        /\ log[i].thrown = "Error"

\* C9: insertValueByPath returns a reference to the node inside the root,
\* never a copy: the node given to insertFn, the returned node and the node
\* read from the root along the path are the same, and what insertFn wrote
\* is read back from the root at that path.
C9_ReturnsReference ==
    \A i \in LastCall :
        log[i].thrown = "none"
        => /\ Lookup(After(i), data, Comps) = log[i].ret
           /\ ~log[i].insert.none
              => /\ log[i].called
                 /\ log[i].arg = log[i].ret
                 /\ GetProp(After(i), Lookup(After(i), data, Comps), log[i].insert.key)
                        = log[i].insert.value

\* A call with an insertFn resolved a two-segment path to an object and
\* returned.
C9_Witness ==
    \E i \in 1..Len(log) :
        /\ ~log[i].insert.none
        /\ log[i].thrown = "none"
        /\ log[i].called
        /\ log[i].ret.t = "ref"
        /\ Len(log[i].parsed) = 2

\* C10: non-empty bracket content that is an integer in its entirety gives
\* {name, isArray: true, index}; any other content ('k', '1k') gives
\* {name, key: content} with isArray unset; and 'a[k]/b' on a root without a
\* creates a as a map with a.k.b = {}.
C10_WholeContentInteger ==
    \A i \in 1..Len(log) :
        /\ \A j \in 1..Len(log[i].parsed) :
              (HasBrackets(Comps[j]) /\ SegContent(Comps[j]) # <<>>)
              => LET pc == log[i].parsed[j]
                     c == SegContent(Comps[j])
                 IN /\ pc.name = SegName(Comps[j])
                    /\ IF WholeInt(c)
                       THEN pc.isArray /\ pc.hasIndex /\ pc.index = WholeIntVal(c)
                                /\ ~pc.hasKey
                       ELSE pc.hasKey /\ pc.key = c /\ ~pc.isArray /\ ~pc.hasIndex
        /\ ( /\ path = <<"a", "[", "k", "]", "/", "b">>
             /\ <<"a">> \notin DOMAIN log[1].pre[1].props )
           => /\ log[i].thrown = "none"
              /\ Graph(After(i), data).props[<<"a">>].kind = "map"
              /\ Graph(After(i), data).props[<<"a">>].props[<<"k">>].props[<<"b">>].kind = "map"

(***************************************************************************)
(* Vocabulary of the properties of the diff engine                         *)
(***************************************************************************)
\* The entries of a diffs map, as pairs <<path, <<old, new>>>>.
Entries(diffs) == {<<p, diffs[p]>> : p \in DOMAIN diffs}

\* Scalar, sequence or mapping.
KindOf(v) == IF v.t = "map" THEN "mapping" ELSE IF v.t = "arr" THEN "sequence" ELSE "scalar"

MaxLen(a, b) == IF Len(a.e) > Len(b.e) THEN Len(a.e) ELSE Len(b.e)

\* A value built from scalars, arrays of scalars and nested maps.
RECURSIVE Plain(_)
Plain(v) ==
    IF v.t = "map" THEN \A k \in DOMAIN v.m : Plain(v.m[k])
    ELSE IF v.t = "arr" THEN \A i \in 1..Len(v.e) : KindOf(v.e[i]) = "scalar"
    ELSE TRUE

\* The entries the decision table asks for: array elements compared by
\* strict equality under k[i], nested maps entered under k/, anything else
\* compared by strict equality under k.
RECURSIVE ExpectedEntries(_, _, _)
ExpectedAt(ov, nv, at) ==
    IF ov.t = "arr" /\ nv.t = "arr"
    THEN {<<at \o IndexPath(i), <<Elem(ov, i), Elem(nv, i)>>>> :
             i \in {j \in 0..(MaxLen(ov, nv) - 1) : StrictNotEqual(Elem(ov, j), Elem(nv, j))}}
    ELSE IF ov.t = "map" /\ nv.t = "map"
         THEN ExpectedEntries(ov, nv, at \o <<"/">>)
         ELSE IF StrictNotEqual(ov, nv) THEN {<<at, <<ov, nv>>>>} ELSE {}

ExpectedEntries(o, n, prefix) ==
    UNION {ExpectedAt(Prop(o, k), Prop(n, k), prefix \o k) : k \in DOMAIN o.m \cup DOMAIN n.m}

\* At this level and at every nested one, a key of one map only, holding a
\* value other than undefined, is recorded against undefined in the result.
RECURSIVE KeysCovered(_, _, _, _)
KeysCovered(o, n, prefix, out) ==
    /\ \A k \in DOMAIN n.m \ DOMAIN o.m :
          n.m[k] # Undef
          => /\ ~out.thrown
             /\ prefix \o k \in DOMAIN out.diffs
             /\ out.diffs[prefix \o k] = <<Undef, n.m[k]>>
    /\ \A k \in DOMAIN o.m \ DOMAIN n.m :
          o.m[k] # Undef
          => /\ ~out.thrown
             /\ prefix \o k \in DOMAIN out.diffs
             /\ out.diffs[prefix \o k] = <<o.m[k], Undef>>
    /\ \A k \in DOMAIN o.m \cap DOMAIN n.m :
          (o.m[k].t = "map" /\ n.m[k].t = "map")
          => KeysCovered(o.m[k], n.m[k], prefix \o k \o <<"/">>, out)

\* p extends the key k with a '/' or '[' sub-path.
Below(p, k) ==
    /\ Len(p) > Len(k)
    /\ SubSeq(p, 1, Len(k)) = k
    /\ p[Len(k) + 1] \in {"/", "["}

\* C4: diffing a snapshot against itself gives hasDiff false and an empty
\* diffs map, whatever scalars (null included) and containers it holds.
C4_SelfDiffEmpty ==
    (diffOut.op = "computeDiff" /\ oldSnap = newSnap)
    => /\ ~diffOut.thrown
       /\ ~diffOut.hasDiff
       /\ diffOut.diffs = EmptyFn

\* C5: computeDiff and computeArrayDiff never throw, for every pair of
\* snapshots, values of different kinds at the same key or index included.
C5_NeverThrows ==
    diffOut.op # "none" => ~diffOut.thrown

\* C6: at every nesting level a key present only in the new snapshot is
\* recorded as (undefined, newValue) and a key present only in the old one as
\* (oldValue, undefined), whenever that value is not undefined.
C6_KeyUnion ==
    diffOut.op = "computeDiff" => KeysCovered(oldSnap, newSnap, <<>>, diffOut)

\* C7: for snapshots built from scalars, arrays of scalars and nested maps,
\* the diffs map holds an entry (old, new) at a path exactly when the two
\* leaves there are not strictly equal, with paths 'k/sub' and 'k[i]'.
C7_ExactEntries ==
    (diffOut.op = "computeDiff" /\ Plain(oldSnap) /\ Plain(newSnap))
    => /\ ~diffOut.thrown
       /\ Entries(diffOut.diffs) = ExpectedEntries(oldSnap, newSnap, <<>>)

\* C8: when the old and the new value at a key are of different kinds, the
\* direct pair (old, new) is recorded at that key and nothing below it
\* (stated of the calls that return a result).
C8_KindChangeDirect ==
    (diffOut.op = "computeDiff" /\ ~diffOut.thrown)
    => \A k \in DOMAIN oldSnap.m \cup DOMAIN newSnap.m :
          KindOf(Prop(oldSnap, k)) # KindOf(Prop(newSnap, k))
          => /\ k \in DOMAIN diffOut.diffs
             /\ diffOut.diffs[k] = <<Prop(oldSnap, k), Prop(newSnap, k)>>
             /\ \A p \in DOMAIN diffOut.diffs : ~Below(p, k)

(***************************************************************************)
(* Properties of the last segment of the path                              *)
(***************************************************************************)
LastSeg == Comps[Len(Comps)]

\* 'name[i]' with i a non-negative decimal integer.
IndexSeg(seg) ==
    /\ HasBrackets(seg)
    /\ SegName(seg) # <<>>
    /\ AllDigits(SegContent(seg))

\* Call i returned after its loop had parsed every segment of the path.
Completed(i) ==
    /\ log[i].thrown = "none"
    /\ Len(log[i].parsed) = Len(Comps)

\* The node the segments before the last one resolve to, after call i.
ParentOf(i) == Lookup(After(i), data, SubSeq(Comps, 1, Len(Comps) - 1))

\* The object named by the last segment, after call i.
TargetOf(i) == GetProp(After(i), ParentOf(i), SegName(LastSeg))

\* The property key of the slot the last segment 'name[i]' addresses.
SlotKey == NumToStr(DigitsVal(SegContent(LastSeg), 10, 0))

\* The graph below v without what insertFn wrote at its top.
GraphLess(h, v, insert) ==
    IF v.t = "ref" /\ ~insert.none
    THEN [k \in DOMAIN Graph(h, v).props \ {insert.key} |-> Graph(h, v).props[k]]
    ELSE IF v.t = "ref" THEN Graph(h, v).props ELSE v

\* Call i found the element v stored and returned it as it was.
ReturnedStored(i, v) ==
    /\ log[i].ret = v
    /\ GraphLess(After(i), v, log[i].insert) = GraphLess(log[i].pre, v, log[i].insert)

\* Call i created an empty map and returned it.
ReturnedNew(i) ==
    /\ log[i].ret.t = "ref"
    /\ log[i].ret.a > Len(log[i].pre)
    /\ After(i)[log[i].ret.a].kind = "map"
    /\ GraphLess(After(i), log[i].ret, log[i].insert) = EmptyFn

\* What insertFn wrote in call i is still there after the next call, which
\* returns the same node (an append segment before the last one leads every
\* call to a new element).
KeptByNext(i) ==
    ( /\ i < Len(log) /\ ~log[i].insert.none /\ log[i + 1].insert.none
      /\ \A j \in 1..Len(Comps) : ~AppendSeg(Comps[j]) )
    => /\ log[i + 1].thrown = "none"
       /\ log[i + 1].ret = log[i].ret
       /\ GetProp(After(i + 1), log[i + 1].ret, log[i].insert.key) = log[i].insert.value

\* Call i resolved a path whose last segment is 'name[i]' and names an
\* array.
IndexSlotCase(i) ==
    /\ IndexSeg(LastSeg)
    /\ Completed(i)
    /\ TargetOf(i).t = "ref"
    /\ After(i)[TargetOf(i).a].kind = "arr"

\* Stored says, of the array t as it was before the call and of the slot
\* key k, whether an element counts as stored there.
IndexSlot(i, Stored(_, _, _)) ==
    IndexSlotCase(i)
    => /\ GetProp(After(i), TargetOf(i), SlotKey) = log[i].ret
       /\ IF Stored(log[i].pre, TargetOf(i), SlotKey)
          THEN ReturnedStored(i, log[i].pre[TargetOf(i).a].props[SlotKey])
          ELSE ReturnedNew(i)

\* The slot holds something, null included.
SlotPresent(pre, t, k) == t.a <= Len(pre) /\ k \in DOMAIN pre[t.a].props

\* The slot holds something other than null.
SlotNotNull(pre, t, k) == SlotPresent(pre, t, k) /\ ~IsNullish(pre[t.a].props[k])

\* C11: 'name[i]' resolves to slot i of the array at name: an empty map is
\* created there only if the slot is absent, an element already stored is
\* returned as is with its contents preserved, and a later resolve of the
\* same path keeps what insertFn wrote.
C11_SlotCreatedOnlyIfAbsent ==
    /\ \A i \in LastCall : IndexSlot(i, SlotPresent)
    /\ \A i \in LastTwoCalls : IndexSlotCase(i) => KeptByNext(i)

\* C11 (amended): as above, but a slot that holds null counts as absent: it
\* is overwritten with a new empty map.
C11_SlotCreatedIfAbsentOrNull ==
    /\ \A i \in LastCall : IndexSlot(i, SlotNotNull)
    /\ \A i \in LastTwoCalls : IndexSlotCase(i) => KeptByNext(i)

\* 'a[0]' was resolved twice on a root whose a is an array: first with an
\* insertFn, then without; the second call found the element stored.
C11_Witness ==
    /\ Len(log) = 2
    /\ IndexSeg(LastSeg)
    /\ Completed(1) /\ Completed(2)
    /\ ~log[1].insert.none /\ log[2].insert.none
    /\ TargetOf(1).t = "ref"
    /\ TargetOf(1).a <= Len(log[1].pre)
    /\ log[1].pre[TargetOf(1).a].kind = "arr"
    /\ SlotNotNull(log[2].pre, TargetOf(2), SlotKey)
    /\ GetProp(heap, log[2].ret, InsertKey) = Num(1)

\* '[key]' or 'name[key]': the bracket content is not empty and not an
\* integer.
KeySeg(seg) ==
    /\ HasBrackets(seg)
    /\ SegContent(seg) # <<>>
    /\ ~WholeInt(SegContent(seg))

\* The properties object v had when call i began; none if the call made it.
PropsBefore(i, v) ==
    IF v.a <= Len(log[i].pre) THEN log[i].pre[v.a].props ELSE EmptyFn

\* Call i returned a new empty map, stored under key of the object v.
CreatedAt(i, v, key) ==
    /\ log[i].thrown = "none"
    /\ ReturnedNew(i)
    /\ GetProp(After(i), v, key) = log[i].ret

\* '[key]' on the node p that had no such key: p.key = {} and no other
\* property is added to p.
BareKeyCreates(i, p, key) ==
    key \notin DOMAIN PropsBefore(i, p)
    => /\ CreatedAt(i, p, key)
       /\ DOMAIN After(i)[p.a].props = DOMAIN PropsBefore(i, p) \cup {key}

\* 'name[key]' on the node p: an absent name is created as a map, and
\* name.key = {} is created when absent.
NamedKeyCreates(i, p, name, key) ==
    /\ name \notin DOMAIN PropsBefore(i, p)
       => /\ GetProp(After(i), p, name).t = "ref"
          /\ After(i)[GetProp(After(i), p, name).a].kind = "map"
          /\ CreatedAt(i, GetProp(After(i), p, name), key)
    /\ ( /\ name \in DOMAIN PropsBefore(i, p)
         /\ PropsBefore(i, p)[name].t = "ref"
         /\ log[i].pre[PropsBefore(i, p)[name].a].kind = "map"
         /\ key \notin DOMAIN log[i].pre[PropsBefore(i, p)[name].a].props )
       => CreatedAt(i, PropsBefore(i, p)[name], key)

\* C12: a bare '[key]' segment dereferences key on the previously resolved
\* node without introducing a name ('[k]' creates root.k = {}, 'a/[k]'
\* creates root.a.k = {}), and 'name[key]' creates name as a map and then
\* name.key = {} when absent, for every non-integer bracket content.
C12_KeySegment ==
    \A i \in 1..Len(log) :
        ( /\ KeySeg(LastSeg)
          /\ Len(log[i].parsed) = Len(Comps)
          /\ ParentOf(i).t = "ref" )
        => IF SegName(LastSeg) = <<>>
           THEN BareKeyCreates(i, ParentOf(i), SegContent(LastSeg))
           ELSE NamedKeyCreates(i, ParentOf(i), SegName(LastSeg), SegContent(LastSeg))

\* C13: every PathComponent parsePathComponent produces has at most one of
\* index and key set, and any index it carries is a non-negative integer.
C13_IndexOrKeyNonNegative ==
    \A i \in 1..Len(log) : \A j \in 1..Len(log[i].parsed) :
        /\ ~(log[i].parsed[j].hasIndex /\ log[i].parsed[j].hasKey)
        /\ log[i].parsed[j].hasIndex => log[i].parsed[j].index >= 0

\* The position of the first empty segment of the path, 0 if there is none.
FirstEmpty == IndexOf(Comps, <<>>)

\* C14: on the empty path, or on a path with an empty trailing segment (a
\* path ending in '/'), the call stops at the empty segment and yields the
\* root itself.
C14_EmptySegmentYieldsRoot ==
    \A i \in 1..Len(log) :
        (path = <<>> \/ LastSeg = <<>>)
        => (log[i].thrown = "none" => log[i].ret = data)

\* C14 (amended): the loop stops at the first empty segment and the call
\* yields the node the segments before it resolve to: the root itself, left
\* as it was, for the empty path and for a path that begins with '/'; the
\* node at 'a' for 'a/'.
C14_EmptySegmentStops ==
    \A i \in LastCall :
        FirstEmpty # 0
        => /\ Len(log[i].parsed) <= FirstEmpty - 1
           /\ log[i].thrown = "none"
              => log[i].ret = Lookup(After(i), data, SubSeq(Comps, 1, FirstEmpty - 1))
           /\ FirstEmpty = 1
              => /\ log[i].ret = data
                 /\ log[i].thrown = "none"
                 /\ GraphLess(After(i), data, log[i].insert)
                        = GraphLess(log[i].pre, data, log[i].insert)

\* A call on a path 'name/' returned the node at name, which is not the
\* root.
C14_Witness ==
    \E i \in 1..Len(log) :
        /\ Len(Comps) = 2
        /\ Comps[1] # <<>> /\ Comps[2] = <<>>
        /\ log[i].thrown = "none"
        /\ Len(log[i].parsed) = 1
        /\ log[i].ret.t = "ref"
        /\ log[i].ret # data

(***************************************************************************)
(* Further properties of the diff engine                                   *)
(***************************************************************************)
MinLen(a, b) == IF Len(a.e) < Len(b.e) THEN Len(a.e) ELSE Len(b.e)

\* Every index beyond the shorter array is recorded with the pair of the
\* two reads, of which the out-of-range one is undefined.
BeyondShorterRecorded(o, n, out) ==
    \A i \in MinLen(o, n)..(MaxLen(o, n) - 1) :
        /\ IndexPath(i) \in DOMAIN out.diffs
        /\ out.diffs[IndexPath(i)] = <<Elem(o, i), Elem(n, i)>>

\* C15: computeArrayDiff compares index-aligned up to the greater length:
\* whenever the lengths differ the result has hasDiff true and records every
\* index beyond the shorter array as '[i]' -> (old, new) with the absent side
\* undefined; two empty arrays give hasDiff false.
C15_LengthsDiffer ==
    diffOut.op = "computeArrayDiff"
    => /\ Len(oldSnap.e) # Len(newSnap.e)
          => /\ ~diffOut.thrown
             /\ diffOut.hasDiff
             /\ BeyondShorterRecorded(oldSnap, newSnap, diffOut)
       /\ (oldSnap = EmptyArrV /\ newSnap = EmptyArrV)
          => ~diffOut.thrown /\ ~diffOut.hasDiff

StartsWith(q, p) == Len(q) >= Len(p) /\ SubSeq(q, 1, Len(p)) = p

EndsWith(q, p) == Len(q) >= Len(p) /\ SubSeq(q, Len(q) - Len(p) + 1, Len(q)) = p

\* The two elements at index i are maps whose structural diff is not empty.
MapsDiffer(o, n, i) ==
    /\ Elem(o, i).t = "map" /\ Elem(n, i).t = "map"
    /\ computeDiff(Elem(o, i), Elem(n, i), <<>>, NoDiffs).hasDiff

\* Every entry of the sub-diff of the elements at index i is found in out
\* at a path made of at, '[i]' and the entry's own path.
SubDiffMerged(o, n, at, out) ==
    \A i \in 0..(MinLen(o, n) - 1) :
        MapsDiffer(o, n, i)
        => \A p \in DOMAIN computeDiff(Elem(o, i), Elem(n, i), <<>>, NoDiffs).diffs :
              \E q \in DOMAIN out.diffs :
                  /\ StartsWith(q, at \o IndexPath(i))
                  /\ EndsWith(q, p)
                  /\ Len(q) > Len(at \o IndexPath(i))
                  /\ out.diffs[q]
                        = computeDiff(Elem(o, i), Elem(n, i), <<>>, NoDiffs).diffs[p]

\* C16: when the elements at index i of two arrays are both maps and differ,
\* the sub-diff is recorded under '[i]' with its own paths appended, so that
\* the changed fields inside the element are identified, in the result of
\* computeArrayDiff and, under 'key[i]...', in the result of computeDiff.
C16_SubDiffMerged ==
    /\ (diffOut.op = "computeArrayDiff" /\ ~diffOut.thrown)
       => SubDiffMerged(oldSnap, newSnap, <<>>, diffOut)
    /\ (diffOut.op = "computeDiff" /\ ~diffOut.thrown)
       => \A k \in DOMAIN oldSnap.m \cap DOMAIN newSnap.m :
             (oldSnap.m[k].t = "arr" /\ newSnap.m[k].t = "arr")
             => SubDiffMerged(oldSnap.m[k], newSnap.m[k], k, diffOut)

\* C17: the result of computeDiff and of computeArrayDiff has hasDiff true
\* if and only if its diffs map is not empty, also when the differences are
\* found only inside nested maps reached by recursion.
C17_FlagIffEntries ==
    (diffOut.op # "none" /\ ~diffOut.thrown)
    => (diffOut.hasDiff <=> diffOut.diffs # EmptyFn)

\* computeDiff returned a result whose only entries lie inside a nested map.
C17_Witness ==
    /\ diffOut.op = "computeDiff"
    /\ ~diffOut.thrown
    /\ diffOut.hasDiff
    /\ diffOut.diffs # EmptyFn
    /\ \A k \in DOMAIN oldSnap.m \cup DOMAIN newSnap.m :
          Prop(oldSnap, k).t = "map" /\ Prop(newSnap, k).t = "map"
    /\ \A p \in DOMAIN diffOut.diffs : Count(p, "/") >= 1

\* The objects of the heap h that can be reached from the value v.
RECURSIVE Reach(_, _)
Reach(h, v) ==
    IF v.t # "ref" THEN {}
    ELSE {v.a} \cup UNION {Reach(h, h[v.a].props[k]) : k \in DOMAIN h[v.a].props}

\* C18: the diff engine never mutates its inputs: after computeDiff or
\* computeArrayDiff returns, both input graphs are what they were before
\* the call, and the result object and its diffs map are allocated by the
\* call, on each top-level call anew.
C18_InputsKeptResultFresh ==
    \A i \in {j \in 1..Len(log) : log[j].op # "areValuesSame"} :
        /\ Graph(After(i), data.old) = Graph(log[i].pre, data.old)
        /\ Graph(After(i), data.new) = Graph(log[i].pre, data.new)
        /\ TreeOf(After(i), data.old) = oldSnap
        /\ TreeOf(After(i), data.new) = newSnap
        /\ log[i].res # Undef
           => /\ \A a \in Reach(After(i), log[i].res) : a > Len(log[i].pre)
              /\ \A j \in {m \in 1..(i - 1) : log[m].op # "areValuesSame"} :
                    Reach(After(i), log[i].res) \cap Reach(After(i), log[j].res) = {}

\* Two calls on the same inputs, which differ, have returned a result each.
C18_Witness ==
    /\ Len(log) = 2
    /\ log[1].op = "computeDiff" /\ log[2].op = "computeDiff"
    /\ log[1].res # Undef /\ log[2].res # Undef
    /\ log[1].res # log[2].res
    /\ GetProp(heap, log[2].res, HasDiffKey) = Bool(TRUE)
    /\ oldSnap.t = "map"

\* The two arrays have equal length and pairwise strictly equal elements.
PairwiseEqual(h, o, n) ==
    /\ h[o.a].len = h[n.a].len
    /\ \A i \in 0..(h[o.a].len - 1) :
          ~StrictNotEqual(GetProp(h, o, NumToStr(i)), GetProp(h, n, NumToStr(i)))

\* computeDiff(old, new) returns and reports no differences.
NoDifferences ==
    /\ ~computeDiff(oldSnap, newSnap, <<>>, NoDiffs).thrown
    /\ ~computeDiff(oldSnap, newSnap, <<>>, NoDiffs).hasDiff

\* C19: areValuesSame agrees with the structural diff on maps: for two maps
\* it returns true exactly when computeDiff reports no differences; for two
\* arrays it returns true exactly when they have equal length and pairwise
\* strictly equal elements.
C19_SameAgreesWithDiff ==
    \A i \in 1..Len(log) :
        log[i].op = "areValuesSame"
        => IF oldSnap.t = "map"
           THEN log[i].res = Bool(TRUE) <=> NoDifferences
           ELSE log[i].res = Bool(TRUE) <=> PairwiseEqual(log[i].pre, data.old, data.new)

(***************************************************************************)
(* Properties of the form context                                          *)
(***************************************************************************)
\* C20: after any sequence of child status reports and parent state
\* changes, if the status some child form reported last is 'err' when the
\* parent context's saveFn is called, saveFn returns a status 'err' result
\* and the saveFn of the caller is not executed.
C20_ChildErrorBlocksSave ==
    \A i \in 1..Len(saves) :
        saves[i].childErr => saves[i].status = "err" /\ ~saves[i].executed

(***************************************************************************)
(* Frame properties of the path resolver                                   *)
(***************************************************************************)
\* The node the segments before segment j resolve to, after call i.
NodeBefore(i, j) == Lookup(After(i), data, SubSeq(Comps, 1, j - 1))

\* What the name of segment j holds in that node, after call i.
NamedAt(i, j) == GetProp(After(i), NodeBefore(i, j), log[i].parsed[j].name)

\* The length array t had when call i began; 0 if the call made it.
LenBefore(i, t) == IF t.a <= Len(log[i].pre) THEN log[i].pre[t.a].len ELSE 0

\* Call i pushed the map e, made by the call, onto the end of array t and
\* left the elements t had as they were.
PushedAs(i, t, e) ==
    /\ After(i)[t.a].len = LenBefore(i, t) + 1
    /\ \A k \in DOMAIN PropsBefore(i, t) :
          /\ GetProp(After(i), t, k) = PropsBefore(i, t)[k]
          /\ Graph(After(i), PropsBefore(i, t)[k]) = Graph(log[i].pre, PropsBefore(i, t)[k])
    /\ e.t = "ref"
    /\ e.a > Len(log[i].pre)
    /\ After(i)[e.a].kind = "map"

PushedOne(i, t) == PushedAs(i, t, GetProp(After(i), t, NumToStr(LenBefore(i, t))))

\* The loop of call i reached the append segment j, whose name holds an
\* array.
AppendCase(i, j) ==
    /\ j <= Len(log[i].parsed)
    /\ AppendSeg(Comps[j])
    /\ IsArrayRef(After(i), NamedAt(i, j))

\* C25: an append segment 'name[]' pushes exactly one new empty map onto the
\* end of the array at name and resolves to it: the length of the array
\* grows by exactly 1 per resolution and the elements at earlier indices are
\* unchanged.
C25_AppendPushesOne ==
    \A i \in LastCall : \A j \in 1..Len(Comps) :
        AppendCase(i, j)
        => /\ PushedOne(i, NamedAt(i, j))
           /\ (j = Len(Comps) /\ log[i].thrown = "none")
              => /\ log[i].ret = GetProp(After(i), NamedAt(i, j),
                                         NumToStr(LenBefore(i, NamedAt(i, j))))
                 /\ GraphLess(After(i), log[i].ret, log[i].insert) = EmptyFn

\* 'a[]' was resolved twice on a root whose a is an array that holds an
\* element: the array has grown by two.
C25_Witness ==
    /\ Len(log) = 2
    /\ path = <<"a", "[", "]">>
    /\ log[1].thrown = "none" /\ log[2].thrown = "none"
    /\ <<"a">> \in DOMAIN log[1].pre[data.a].props
    /\ log[1].pre[data.a].props[<<"a">>].t = "ref"
    /\ log[1].pre[log[1].pre[data.a].props[<<"a">>].a].len = 1
    /\ heap[log[1].pre[data.a].props[<<"a">>].a].len = 3
    /\ log[1].ret # log[2].ret

\* The name of the first segment, as call i parsed it, is a key of the root.
FirstNameExists(i) ==
    /\ Len(log[i].parsed) >= 1
    /\ log[i].parsed[1].name # <<>>
    /\ log[i].parsed[1].name \in DOMAIN log[i].pre[data.a].props

\* C26: when the key of a named segment already exists in the current node,
\* whatever it holds (a map, an array, or a scalar, falsy ones such as 0 or
\* null included), the call takes the existing value as the target and does
\* not replace it; a new container is created only when the key does not
\* exist.
C26_ExistingKeyKept ==
    \A i \in LastCall :
        FirstNameExists(i)
        => After(i)[data.a].props[log[i].parsed[1].name]
              = log[i].pre[data.a].props[log[i].parsed[1].name]

\* Every object that existed when call i began has kept every property it
\* had, with the same value.
KeptAll(i) ==
    \A a \in 1..Len(log[i].pre) :
        /\ After(i)[a].kind = log[i].pre[a].kind
        /\ \A k \in DOMAIN log[i].pre[a].props :
              /\ k \in DOMAIN After(i)[a].props
              /\ After(i)[a].props[k] = log[i].pre[a].props[k]

\* The objects call i made are maps and arrays that hold nothing but
\* objects the call made, and each of them is reached from the root.
OnlyNewContainers(i) ==
    \A a \in (Len(log[i].pre) + 1)..Len(After(i)) :
        /\ a \in Reach(After(i), data)
        /\ \A k \in DOMAIN After(i)[a].props :
              /\ After(i)[a].props[k].t = "ref"
              /\ After(i)[a].props[k].a > Len(log[i].pre)

\* C27: the resolver only adds to the graph: when a call without insertFn
\* returns, every key and array element that existed in the root before the
\* call still exists with the same value, and the only new nodes are the
\* empty maps and arrays created along the resolved path.
C27_OnlyAdds ==
    \A i \in LastCall :
        (log[i].thrown = "none" /\ log[i].insert.none)
        => KeptAll(i) /\ OnlyNewContainers(i)

\* Call i threw the unnamed-array error at segment j.
FailedAt(i, j) == log[i].thrown = "Error" /\ Len(log[i].parsed) = j

\* The root as call i left it is the root as it was when the call began.
RootUnchanged(i) == Graph(After(i), data) = Graph(log[i].pre, data)

\* The root as call i left it is what resolving the segments before
\* segment j, and nothing more, makes of the root the call began with.
PrefixKept(i, j) ==
    Graph(After(i), data)
        = Graph(insertValueByPath(log[i].pre, data, Join(SubSeq(Comps, 1, j - 1)),
                                  NoInsert).h, data)

\* C28: there is no rollback: when the call throws the unnamed-array error
\* at a segment that is not the first, the containers created by the earlier
\* segments remain in the root; a failing call leaves the root unchanged
\* only when the failing segment is the first one.
C28_UnchangedOnlyIfFirst ==
    \A i \in LastCall : \A j \in 1..Len(Comps) :
        FailedAt(i, j)
        => /\ j > 1 => PrefixKept(i, j)
           /\ RootUnchanged(i) <=> j = 1

\* C28 (amended): as above, but a failing call leaves the root unchanged
\* when the failing segment is the first one, and also when the earlier
\* segments created nothing.
C28_NoRollback ==
    \A i \in LastCall : \A j \in 1..Len(Comps) :
        FailedAt(i, j)
        => /\ j > 1 => PrefixKept(i, j)
           /\ j = 1 => RootUnchanged(i)

\* The first call threw the unnamed-array error at the second segment,
\* after the first segment had created a container that is still in the
\* root.
C28_Witness ==
    /\ Len(log) = 1
    /\ FailedAt(1, 2)
    /\ ~RootUnchanged(1)
    /\ Len(heap) > Len(log[1].pre)
    /\ Reach(heap, data) = 1..Len(heap)

\* The handler that ran last called the function the caller supplied as fn.
SuppliedCalled(fn) == \E j \in 2..Len(trace.calls) : trace.calls[j] = Called(fn)

\* The first call the handler made is ping(action, state, ...).
PingedFirst(action) ==
    /\ trace.calls # <<>>
    /\ trace.calls[1].fn = "ping"
    /\ trace.calls[1].action = action
    /\ trace.calls[1].curState = trace.pre.state

\* C21: the context's resetFn and cancelFn each call ping with the event
\* name 'beforeReset' / 'beforeCancel' and then execute the resetFn /
\* cancelFn the caller supplied, if one is defined.
C21_ResetCancelRunSupplied ==
    /\ trace.op = "resetFn"
       => /\ PingedFirst("beforeReset")
          /\ hookProps.resetFn # Undef <=> SuppliedCalled("resetFn")
    /\ trace.op = "cancelFn"
       => /\ PingedFirst("beforeCancel")
          /\ hookProps.cancelFn # Undef <=> SuppliedCalled("cancelFn")

\* The entries of the state before the handler; none when it is undefined.
PreEntries == IF trace.pre.state = Undef THEN EmptyFn ELSE trace.pre.state.m

\* What key k holds when trace.arg is laid over the state before.
MergedAt(k) == IF k \in DOMAIN trace.arg.m THEN trace.arg.m[k] ELSE PreEntries[k]

NetChanged == StrictNotEqual(trace.val, Prop(trace.pre.state, ManagedName))

\* C23: a blur on a managed single-value control propagates to the parent
\* form (ctx.setState and a 'beforeStateChange' ping) only if the value of
\* the control has net-changed relative to the parent state; a blur with no
\* net change, after a propagated change or before any change was made,
\* causes no state change and no ping; onChange alone never changes the
\* parent state.
C23_BlurOnlyOnNetChange ==
    /\ trace.op = "change" => (formCtx = trace.pre /\ trace.calls = <<>>)
    /\ (trace.op = "blur" /\ ~NetChanged) => (formCtx = trace.pre /\ trace.calls = <<>>)

(***************************************************************************)
(* Properties of the composed validator                                    *)
(***************************************************************************)
\* The call was made on an object, with a final validator registered.
FinalRegistered ==
    /\ validated.op = "validate"
    /\ Truthy(validated.obj)
    /\ validatorAt(validated.pre, FinalKey) # Undef

\* C24: a final validator registered under '*' is invoked after all the
\* single-field and multi-field validators have run, receives the object,
\* and a failure of it is reported in the thrown error map under '*'.
C24_FinalValidatorRunsLast ==
    FinalRegistered
    => /\ Len(validated.calls) = Len(validated.pre)
       /\ validated.calls[Len(validated.calls)][1] = FinalKey
       /\ validated.calls[Len(validated.calls)][2].t = "map"
       /\ validatorAt(validated.pre, FinalKey).does = "throws"
          => /\ validated.thrown
             /\ FinalKey \in DOMAIN validated.errMap
             /\ validated.errMap[FinalKey] = messageOf(FinalKey)

(***************************************************************************)
(* Properties of the DynamicForm of part_003                               *)
(***************************************************************************)
\* C29: change detection is quiescent: 'control-update' is emitted by
\* detectChanges exactly when the computed diff has hasDiff true, and once
\* a pass of detectChanges has synchronised the current snapshot, a further
\* pass with no control changed in between, checked checkboxes collected
\* into arrays included, finds no diff and emits no 'control-update'.
C29_DetectQuiescent ==
    \A i \in LastCall :
        log[i].op = "detectChanges"
        => /\ log[i].hasDiff <=> (\E j \in 1..Len(log[i].emitted) :
                                     log[i].emitted[j] = "control-update")
           /\ (i > 1 /\ log[i - 1].op = "detectChanges" /\ ~log[i].touched)
              => (~log[i].hasDiff /\ log[i].emitted = <<>>)

\* C30: the context's initialData, the clean data state, is kept apart from
\* the current data state: after any sequence of collection and
\* detectChanges passes, initialData still equals the value it had when the
\* context was created or last set through setInitialData.
C30_InitialDataKept ==
    TreeOf(heap, data.initialData) = data.clean

====
